---- MODULE Spec2Model ----
(***************************************************************************)
(* Miratope: ranked element lists of polytopes and the prism, tegum and    *)
(* pyramid products of src/ts/polytopes/classes/Product.ts.                *)
(*                                                                         *)
(* An element list is the sequence of its rank lists; TLA+ sequences start *)
(* at 1, so rank r of the source (elementList[r]) is els[r + 1] here and   *)
(* the cell with source index i of that rank is els[r + 1][i + 1].  The    *)
(* indices stored inside the cells keep the source's values (from 0).      *)
(* A Point is the sequence of its coordinates.  The real coordinates of    *)
(* the builders are carried as integer tokens: equal tokens stand for      *)
(* equal reals, and 0 is the real 0 (the products pad with zeros).         *)
(***************************************************************************)
EXTENDS Integers, Sequences, FiniteSets, TLC

VARIABLES heap, op, args, ret, calls

vars == <<heap, op, args, ret, calls>>

(* ---------------------------- bounds ----------------------------------- *)
\* largest number of sides of the polygons the operands are drawn from
MaxN == 4
\* largest winding number of these polygons
MaxD == 2
\* number of polytopes built before the first product call
MaxInit == 2
\* number of operands of one product call
MaxArgs == 3
\* number of product calls in one behaviour
MaxCalls == 1
\* number of elements of the largest product that is computed
MaxCells == 121

(* ------------------------ JavaScript values ---------------------------- *)
\* the value of an array read past its end
undefined == -2
\* the result of arithmetic on undefined
NaN == -1

IsNum(x) == x # undefined /\ x # NaN

Plus(a, b) == IF IsNum(a) /\ IsNum(b) THEN a + b ELSE NaN

Times(a, b) == IF IsNum(a) /\ IsNum(b) THEN a * b ELSE NaN

\* if (x) for a number or undefined: 0, NaN and undefined are falsy
Truthy(x) == IsNum(x) /\ x # 0

\* a[k] for an array a and a source index k
At(a, k) == IF IsNum(k) /\ k >= 0 /\ k < Len(a) THEN a[k + 1] ELSE undefined

RECURSIVE Flatten(_)
Flatten(ss) == IF ss = << >> THEN << >> ELSE Head(ss) \o Flatten(Tail(ss))

RECURSIVE gcd(_, _)
gcd(a, b) == IF b = 0 THEN a ELSE gcd(b, a % b)

Range(s) == {s[k] : k \in 1..Len(s)}

(* ------------------------------ Point ---------------------------------- *)
Zeros(n) == [k \in 1..n |-> 0]

PointProduct(p, q) == p \o q

padLeft(p, n) == Zeros(n) \o p

padRight(p, n) == p \o Zeros(n)

addCoordinate(p, x) == Append(p, x)

(* ------------------------ construction nodes --------------------------- *)
\* a node whose child is not a list of nodes: the child is kept as a label
Leaf(type, label) == [type |-> type, label |-> label, child |-> << >>]

\* new CNMultiprism(child), new CNMultitegum(child), new CNMultipyramid(child)
Multi(type, child) == [type |-> type, label |-> "", child |-> child]

(* ----------------------------- PolytopeC ------------------------------- *)
PolytopeC(elementList, construction) ==
    [elementList |-> elementList, construction |-> construction]

dimensions(P) == Len(P.elementList) - 1

spaceDimensions(P) ==
    IF Len(P.elementList) > 0 /\ Len(P.elementList[1]) > 0
    THEN Len(P.elementList[1][1]) ELSE -1

\* elementList[r].length
Count(els, r) == Len(els[r + 1])

(* ------------------------------ Build ---------------------------------- *)
nullitope == PolytopeC(<< >>, Leaf("Codename", "nullitope"))

point == PolytopeC(<< << << >> >> >>, Leaf("Codename", "point"))

dyad == PolytopeC(<< << <<-1>>, <<1>> >>, << <<0, 1>> >> >>,
                  Leaf("Codename", "dyad"))

\* polygonStep without the x++ and y++ that follow a component
polygonStep_nobump(n, d, n_gcd, j, st) ==
    LET y1 == st.y + d
        y2 == IF y1 >= n THEN y1 - n ELSE y1
        components == Append(st.components, st.counter)
        last == j = n_gcd - 1
    IN [edges |-> Append(st.edges, <<st.x, st.y>>),
        x |-> st.y,
        y |-> y2,
        counter |-> st.counter + 1,
        components |-> IF last THEN << >> ELSE components,
        comps |-> IF last THEN Append(st.comps, components) ELSE st.comps]

\* one pass of the inner loop of regularPolygon (for j), and, after the last
\* edge of a component, the end of the outer loop's body (for i)
polygonStep(n, d, n_gcd, j, st) ==
    LET y1 == st.y + d
        y2 == IF y1 >= n THEN y1 - n ELSE y1
        components == Append(st.components, st.counter)
        last == j = n_gcd - 1
    IN [edges |-> Append(st.edges, <<st.x, st.y>>),
        x |-> IF last THEN st.y + 1 ELSE st.y,
        y |-> IF last THEN y2 + 1 ELSE y2,
        counter |-> st.counter + 1,
        components |-> IF last THEN << >> ELSE components,
        comps |-> IF last THEN Append(st.comps, components) ELSE st.comps]

RECURSIVE polygonLoop(_, _, _, _, _)
polygonLoop(n, d, n_gcd, t, st) ==
    IF t >= n THEN st
    ELSE polygonLoop(n, d, n_gcd, t + 1,
                     polygonStep(n, d, n_gcd, t % n_gcd, st))

regularPolygon(n, d) ==
    LET n_gcd == n \div gcd(n, d)
        verts == [i \in 1..n |-> << 2 * i - 1, 2 * i >>]
        st == polygonLoop(n, d, n_gcd, 0,
                          [edges |-> << >>, x |-> 0, y |-> d, counter |-> 0,
                           components |-> << >>, comps |-> << >>])
    IN PolytopeC(<<verts, st.edges, st.comps>>,
                 Leaf("Polygon", ToString(n) \o "/" \o ToString(d)))

(* ----------------------- the memoizer arrays --------------------------- *)
\* memoizer: number[][].  rows is the set of m with memoizer[m] an array,
\* val the entries that were assigned
EmptyMemo == [rows |-> {}, val |-> [x \in {} |-> 0]]

\* memoizer[m][n], for a row m that exists
MemoGet(memoizer, m, n) ==
    IF <<m, n>> \in DOMAIN memoizer.val THEN memoizer.val[<<m, n>>]
    ELSE undefined

\* memoizer[m][n] = v
MemoSet(memoizer, m, n, v) ==
    [rows |-> memoizer.rows \cup {m}, val |-> (<<m, n>> :> v) @@ memoizer.val]

(* ------------------------------ prism ---------------------------------- *)
\* getIndexOfPrismProduct with the skipped products counted in the wrong
\* column (|Q rank n| for |Q rank n + 1|)
getIndexOfPrismProduct_column(m, i, n, j, P, Q, memoizer) ==
    LET offset == Plus(Times(i, Count(Q, n)), j)
        hasRow == m \in memoizer.rows
    IN IF hasRow /\ Truthy(MemoGet(memoizer, m, n))
       THEN [ret |-> Plus(MemoGet(memoizer, m, n), offset),
             memoizer |-> memoizer, threw |-> FALSE]
       ELSE IF m = 0 \/ n = Len(Q) - 1
       THEN [ret |-> Plus(0, offset),
             memoizer |-> MemoSet(memoizer, m, n, 0), threw |-> FALSE]
       ELSE IF (m - 1) \notin memoizer.rows
       THEN [ret |-> undefined,
             memoizer |-> [memoizer EXCEPT !.rows = @ \cup {m}],
             threw |-> TRUE]
       ELSE LET v == Plus(MemoGet(memoizer, m - 1, n + 1),
                          Times(Count(P, m - 1), Count(Q, n)))
            IN [ret |-> Plus(v, offset),
                memoizer |-> MemoSet(memoizer, m, n, v), threw |-> FALSE]

\* P and Q are element lists.  threw: reading memoizer[m - 1][n + 1] when
\* memoizer[m - 1] is undefined is a TypeError
getIndexOfPrismProduct(m, i, n, j, P, Q, memoizer) ==
    LET offset == Plus(Times(i, Count(Q, n)), j)
        hasRow == m \in memoizer.rows
    IN IF hasRow /\ Truthy(MemoGet(memoizer, m, n))
       THEN [ret |-> Plus(MemoGet(memoizer, m, n), offset),
             memoizer |-> memoizer, threw |-> FALSE]
       ELSE IF m = 0 \/ n = Len(Q) - 1
       THEN [ret |-> Plus(0, offset),
             memoizer |-> MemoSet(memoizer, m, n, 0), threw |-> FALSE]
       ELSE IF (m - 1) \notin memoizer.rows
       THEN [ret |-> undefined,
             memoizer |-> [memoizer EXCEPT !.rows = @ \cup {m}],
             threw |-> TRUE]
       ELSE LET v == Plus(MemoGet(memoizer, m - 1, n + 1),
                          Times(Count(P, m - 1), Count(Q, n + 1)))
            IN [ret |-> Plus(v, offset),
                memoizer |-> MemoSet(memoizer, m, n, v), threw |-> FALSE]

\* indices.push(r.ret) for the result r of a call of getIndexOf...Product:
\* the call has updated the memoizer, or has thrown
pushIndex(indices, r) ==
    [indices |-> Append(indices, r.ret), memoizer |-> r.memoizer,
     threw |-> r.threw]

\* const indices = [] at the head of the body of the innermost loop
noIndices(st) == [indices |-> << >>, memoizer |-> st.memoizer, threw |-> FALSE]

\* newElementList[rank].push(indices) for the state s left by the loops
\* over k; rank is a place of the sequence, from 1
pushIndices(newElementList, rank, s) ==
    [newElementList |-> [newElementList EXCEPT ![rank] = Append(@, s.indices)],
     memoizer |-> s.memoizer, threw |-> s.threw]

\* the two loops over k that fill indices for the product of the i-th
\* m-element and the j-th n-element: side "P" is the loop over the facets of
\* the m-element (if m !== 0), side "Q" the loop over the facets of the
\* n-element (if n !== 0)
RECURSIVE prismFacetLoop(_, _, _, _, _, _, _, _, _)
prismFacetLoop(side, k, m, i, n, j, P, Q, st) ==
    LET length == IF side = "P"
                  THEN (IF m # 0 THEN Len(P[m + 1][i + 1]) ELSE 0)
                  ELSE (IF n # 0 THEN Len(Q[n + 1][j + 1]) ELSE 0)
    IN IF st.threw \/ k >= length THEN st
       ELSE prismFacetLoop(side, k + 1, m, i, n, j, P, Q,
                pushIndex(st.indices,
                    IF side = "P"
                    THEN getIndexOfPrismProduct(m - 1, P[m + 1][i + 1][k + 1],
                                                n, j, P, Q, st.memoizer)
                    ELSE getIndexOfPrismProduct(m, i, n - 1,
                                                Q[n + 1][j + 1][k + 1],
                                                P, Q, st.memoizer)))

\* the body of the innermost loop (for j) for the pass c = <<m, n, i, j>>:
\* st is the state of the call, newElementList and memoizer
prismCell(c, P, Q, st) ==
    pushIndices(st.newElementList, c[1] + c[2] + 1,
        prismFacetLoop("Q", 0, c[1], c[3], c[2], c[4], P, Q,
            prismFacetLoop("P", 0, c[1], c[3], c[2], c[4], P, Q,
                           noIndices(st))))

\* the passes of "for i, for j" for one pair of ranks, in order
PairCells(m, n, mDimCount, nDimCount) ==
    [t \in 1..(mDimCount * nDimCount) |->
        <<m, n, (t - 1) \div nDimCount, (t - 1) % nDimCount>>]

\* prismOrder with the loop over n started at 0 for m = 0 too
prismOrder_from0(P, Q) ==
    Flatten([mm \in 1..Len(P) |->
        Flatten([nn \in 1..Len(Q) |->
            PairCells(mm - 1, nn - 1, Count(P, mm - 1), Count(Q, nn - 1))])])

\* the passes of the four nested loops of _prism, in order
prismOrder(P, Q) ==
    Flatten([mm \in 1..Len(P) |->
        LET m == mm - 1
            lo == IF m = 0 THEN 1 ELSE 0
        IN Flatten([nn \in 1..(Len(Q) - lo) |->
               PairCells(m, lo + nn - 1, Count(P, m), Count(Q, lo + nn - 1))])])

RECURSIVE prismLoop(_, _, _, _, _)
prismLoop(t, order, P, Q, st) ==
    IF t > Len(order) \/ st.threw THEN st
    ELSE prismLoop(t + 1, order, P, Q, prismCell(order[t], P, Q, st))

\* the new element list built by _prism for two element lists with vertices
prismElementList(P, Q) ==
    LET vertices == [t \in 1..(Count(P, 0) * Count(Q, 0)) |->
                        PointProduct(P[1][((t - 1) \div Count(Q, 0)) + 1],
                                     Q[1][((t - 1) % Count(Q, 0)) + 1])]
        empty == [r \in 1..(Len(P) - 1 + Len(Q) - 1 + 1) |->
                        IF r = 1 THEN vertices ELSE << >>]
    IN prismLoop(1, prismOrder(P, Q), P, Q,
                 [newElementList |-> empty, memoizer |-> EmptyMemo,
                  threw |-> FALSE])

\* new PolytopeC(...): the object gets the next free place of the heap
Alloc(h, obj) == [heap |-> Append(h, obj), ret |-> Len(h) + 1, threw |-> FALSE]

\* a call that returns one of the objects it was given
Return(h, id) == [heap |-> h, ret |-> id, threw |-> FALSE]

\* a call that ends with an exception
Throw(h) == [heap |-> h, ret |-> 0, threw |-> TRUE]

\* return new PolytopeC(newElementList), reached when the loops did not throw
newPolytopeC(h, st) ==
    IF st.threw THEN Throw(h)
    ELSE Alloc(h, PolytopeC(st.newElementList, Leaf("Name", "")))

\* _prism that returns the point when the point is its first operand
_prism_point(h, p, q) ==
    LET P == h[p]
        Q == h[q]
    IN IF dimensions(P) = 0 THEN Return(h, p)
       ELSE IF dimensions(Q) = 0 THEN Return(h, p)
       ELSE IF Len(P.elementList) = 0 \/ Len(Q.elementList) = 0
       THEN Alloc(h, nullitope)
       ELSE newPolytopeC(h, prismElementList(P.elementList, Q.elementList))

\* _prism(P, Q) for the objects p and q of the heap h
_prism(h, p, q) ==
    LET P == h[p]
        Q == h[q]
    IN IF dimensions(P) = 0 THEN Return(h, q)
       ELSE IF dimensions(Q) = 0 THEN Return(h, p)
       ELSE IF Len(P.elementList) = 0 \/ Len(Q.elementList) = 0
       THEN Alloc(h, nullitope)
       ELSE newPolytopeC(h, prismElementList(P.elementList, Q.elementList))

(* ------------------------- tegum and pyramid --------------------------- *)
\* getIndexOfTegumProduct with the offset of a product with the nullitope
\* of Q taken from j instead of i
getIndexOfTegumProduct_offset(m, i, n, j, P, Q, memoizer, tegumMode) ==
    LET offset == IF m = -1 THEN j
                  ELSE IF n = -1 THEN j
                  ELSE Plus(Times(i, Count(Q, n)), j)
        mm == m + 1
        nn == n + 1
        hasRow == mm \in memoizer.rows
    IN IF hasRow /\ Truthy(MemoGet(memoizer, mm, nn))
       THEN [ret |-> Plus(MemoGet(memoizer, mm, nn), offset),
             memoizer |-> memoizer, threw |-> FALSE]
       ELSE IF mm = 0 \/ nn = Len(Q) - (IF tegumMode THEN 1 ELSE 0)
       THEN [ret |-> Plus(0, offset),
             memoizer |-> MemoSet(memoizer, mm, nn, 0), threw |-> FALSE]
       ELSE IF (mm - 1) \notin memoizer.rows \/ nn >= Len(Q)
       THEN [ret |-> undefined,
             memoizer |-> [memoizer EXCEPT !.rows = @ \cup {mm}],
             threw |-> TRUE]
       ELSE LET v == IF mm = 1
                     THEN Plus(MemoGet(memoizer, mm - 1, nn + 1),
                               Count(Q, nn))
                     ELSE Plus(MemoGet(memoizer, mm - 1, nn + 1),
                               Times(Count(P, mm - 2), Count(Q, nn)))
            IN [ret |-> Plus(v, offset),
                memoizer |-> MemoSet(memoizer, mm, nn, v), threw |-> FALSE]

\* P and Q are element lists; m and n are the ranks before the m++, n++ of
\* the source, mm and nn after it
getIndexOfTegumProduct(m, i, n, j, P, Q, memoizer, tegumMode) ==
    LET offset == IF m = -1 THEN j
                  ELSE IF n = -1 THEN i
                  ELSE Plus(Times(i, Count(Q, n)), j)
        mm == m + 1
        nn == n + 1
        hasRow == mm \in memoizer.rows
    IN IF hasRow /\ Truthy(MemoGet(memoizer, mm, nn))
       THEN [ret |-> Plus(MemoGet(memoizer, mm, nn), offset),
             memoizer |-> memoizer, threw |-> FALSE]
       ELSE IF mm = 0 \/ nn = Len(Q) - (IF tegumMode THEN 1 ELSE 0)
       THEN [ret |-> Plus(0, offset),
             memoizer |-> MemoSet(memoizer, mm, nn, 0), threw |-> FALSE]
       ELSE IF (mm - 1) \notin memoizer.rows \/ nn >= Len(Q)
       THEN [ret |-> undefined,
             memoizer |-> [memoizer EXCEPT !.rows = @ \cup {mm}],
             threw |-> TRUE]
       ELSE LET v == IF mm = 1
                     THEN Plus(MemoGet(memoizer, mm - 1, nn + 1),
                               Count(Q, nn))
                     ELSE Plus(MemoGet(memoizer, mm - 1, nn + 1),
                               Times(Count(P, mm - 2), Count(Q, nn)))
            IN [ret |-> Plus(v, offset),
                memoizer |-> MemoSet(memoizer, mm, nn, v), threw |-> FALSE]

\* iElCount and jElCount: the number of subelements of the idx-th element
\* of rank r of the element list X
ElCount(X, r, idx) ==
    IF r = -1 THEN 0 ELSE IF r = 0 THEN 1 ELSE Len(X[r + 1][idx + 1])

\* elIndx: the k-th subelement of the idx-th element of rank r of X
ElIndx(X, r, idx, k) == IF r = 0 THEN 0 ELSE At(X[r + 1][idx + 1], k)

\* the two loops over k of _tegum (tegumMode) and of _pyramid that fill
\* indices: side "P" is the first loop, side "Q" the second
RECURSIVE tegumFacetLoop(_, _, _, _, _, _, _, _, _, _)
tegumFacetLoop(side, k, m, i, n, j, P, Q, tegumMode, st) ==
    LET count == IF side = "P" THEN ElCount(P, m, i) ELSE ElCount(Q, n, j)
    IN IF st.threw \/ k >= count THEN st
       ELSE tegumFacetLoop(side, k + 1, m, i, n, j, P, Q, tegumMode,
                pushIndex(st.indices,
                    IF side = "P"
                    THEN getIndexOfTegumProduct(m - 1, ElIndx(P, m, i, k),
                             n, j, P, Q, st.memoizer, tegumMode)
                    ELSE getIndexOfTegumProduct(m, i, n - 1,
                             ElIndx(Q, n, j, k), P, Q, st.memoizer,
                             tegumMode)))

\* the body of the innermost loop (for j) of _tegum and of _pyramid for
\* the pass c = <<m, n, i, j>>
tegumCell(c, P, Q, tegumMode, st) ==
    pushIndices(st.newElementList, c[1] + c[2] + 2,
        tegumFacetLoop("Q", 0, c[1], c[3], c[2], c[4], P, Q, tegumMode,
            tegumFacetLoop("P", 0, c[1], c[3], c[2], c[4], P, Q, tegumMode,
                           noIndices(st))))

\* mDimCount, nDimCount: every polytope has a single nullitope
DimCount(X, r) == IF r = -1 THEN 1 ELSE Count(X, r)

\* the passes of the four nested loops, in order, for m = -1..mMax and
\* n = -1..nMax; the pairs with m + n < 0 are skipped
tegumOrder(P, Q, mMax, nMax) ==
    Flatten([mm \in 1..(mMax + 2) |->
        Flatten([nn \in 1..(nMax + 2) |->
            LET m == mm - 2
                n == nn - 2
            IN IF m + n < 0 THEN << >>
               ELSE PairCells(m, n, DimCount(P, m), DimCount(Q, n))])])

RECURSIVE tegumLoop(_, _, _, _, _, _)
tegumLoop(t, order, P, Q, tegumMode, st) ==
    IF t > Len(order) \/ st.threw THEN st
    ELSE tegumLoop(t + 1, order, P, Q, tegumMode,
                   tegumCell(order[t], P, Q, tegumMode, st))

\* the loops over k and l of the component pass of _tegum, as one loop
\* over t = k * jElCount + l; the subelement of Q is read at k, as the
\* source does
RECURSIVE componentLoop(_, _, _, _, _, _, _, _)
componentLoop(t, m, i, n, j, P, Q, st) ==
    LET iElCount == IF m = 0 THEN 1 ELSE Len(P[m + 1][i + 1])
        jElCount == IF n = 0 THEN 1 ELSE Len(Q[n + 1][j + 1])
        k == t \div jElCount
        elIndx == IF m = 0 THEN 0 ELSE At(P[m + 1][i + 1], k)
        elIndx2 == IF n = 0 THEN 0 ELSE At(Q[n + 1][j + 1], k)
    IN IF st.threw \/ t >= iElCount * jElCount THEN st
       ELSE componentLoop(t + 1, m, i, n, j, P, Q,
                pushIndex(st.indices,
                    getIndexOfTegumProduct(m - 1, elIndx, n - 1, elIndx2,
                                           P, Q, st.memoizer, TRUE)))

\* the body of the loop over j of the component pass
componentCell(c, P, Q, st) ==
    pushIndices(st.newElementList, c[1] + c[2] + 1,
        componentLoop(0, c[1], c[3], c[2], c[4], P, Q, noIndices(st)))

RECURSIVE componentPass(_, _, _, _, _)
componentPass(t, order, P, Q, st) ==
    IF t > Len(order) \/ st.threw THEN st
    ELSE componentPass(t + 1, order, P, Q, componentCell(order[t], P, Q, st))

\* the new element list built by _tegum for the objects P and Q
tegumElementList(P, Q) ==
    LET P_ == P.elementList
        Q_ == Q.elementList
        vertices ==
            [t \in 1..Count(Q_, 0) |-> padLeft(Q_[1][t], spaceDimensions(P))]
            \o [t \in 1..Count(P_, 0) |->
                    padRight(P_[1][t], spaceDimensions(Q))]
        empty == [r \in 1..(dimensions(P) + dimensions(Q) + 1) |->
                        IF r = 1 THEN vertices ELSE << >>]
        m == Len(P_) - 1
        n == Len(Q_) - 1
    IN componentPass(1, PairCells(m, n, Count(P_, m), Count(Q_, n)),
                     P_, Q_,
                     tegumLoop(1, tegumOrder(P_, Q_, dimensions(P) - 1,
                                             dimensions(Q) - 1),
                               P_, Q_, TRUE,
                               [newElementList |-> empty,
                                memoizer |-> EmptyMemo, threw |-> FALSE]))

\* _tegum(P, Q) for the objects p and q of the heap h
_tegum(h, p, q) ==
    LET P == h[p]
        Q == h[q]
    IN IF dimensions(P) <= 0 \/ Len(Q.elementList) = 0 THEN Return(h, q)
       ELSE IF dimensions(Q) <= 0 \/ Len(P.elementList) = 0 THEN Return(h, p)
       ELSE newPolytopeC(h, tegumElementList(P, Q))

\* the new element list built by _pyramid for the objects P and Q; height
\* is 1 for the vertices of Q and -1 for those of P
pyramidElementList(P, Q) ==
    LET P_ == P.elementList
        Q_ == Q.elementList
        vertices ==
            [t \in 1..Count(Q_, 0) |->
                addCoordinate(padLeft(Q_[1][t], spaceDimensions(P)), 1)]
            \o [t \in 1..Count(P_, 0) |->
                    addCoordinate(padRight(P_[1][t], spaceDimensions(Q)), -1)]
        empty == [r \in 1..(dimensions(P) + dimensions(Q) + 2) |->
                        IF r = 1 THEN vertices ELSE << >>]
    IN tegumLoop(1, tegumOrder(P_, Q_, dimensions(P), dimensions(Q)),
                 P_, Q_, FALSE,
                 [newElementList |-> empty, memoizer |-> EmptyMemo,
                  threw |-> FALSE])

\* _pyramid that returns Q when Q is the nullitope
_pyramid_returnQ(h, p, q) ==
    LET P == h[p]
        Q == h[q]
    IN IF dimensions(P) = -1 \/ Len(P.elementList) = 0 THEN Return(h, q)
       ELSE IF dimensions(Q) = -1 \/ Len(Q.elementList) = 0
       THEN Return(h, q)
       ELSE newPolytopeC(h, pyramidElementList(P, Q))

\* _pyramid(P, Q) for the objects p and q of the heap h
_pyramid(h, p, q) ==
    LET P == h[p]
        Q == h[q]
    IN IF dimensions(P) = -1 \/ Len(P.elementList) = 0 THEN Return(h, q)
       ELSE IF dimensions(Q) = -1 \/ Len(Q.elementList) = 0
       THEN Return(h, p)
       ELSE newPolytopeC(h, pyramidElementList(P, Q))

(* ----------------------------- _product -------------------------------- *)
\* fun(P, Q): the binary step that prism, tegum and pyramid hand to _product
Fun(type, h, p, q) ==
    IF type = "Multiprism" THEN _prism(h, p, q)
    ELSE IF type = "Multitegum" THEN _tegum(h, p, q)
    ELSE _pyramid(h, p, q)

\* res = fun(pop, res) and constructions.push(pop.construction) for the
\* result r of the call of fun
assignRes(st, pop, r) ==
    [heap |-> r.heap, res |-> r.ret, threw |-> r.threw,
     constructions |-> Append(st.constructions, st.heap[pop].construction)]

\* res.construction = new ConstructionNode(type, constructions) and
\* return res, for the state st left by the while loop
setConstruction(h, type, st) ==
    IF st.threw THEN Throw(h)
    ELSE [heap |-> [st.heap EXCEPT ![st.res].construction =
                        Multi(type, st.constructions)],
          ret |-> st.res, threw |-> FALSE]

\* the while loop of _product with the accumulated result as the left
\* factor: fun(res, pop)
RECURSIVE productLoop_swapped(_, _, _)
productLoop_swapped(type, P, st) ==
    IF P = << >> \/ st.threw THEN st
    ELSE LET pop == P[Len(P)]
         IN productLoop_swapped(type, SubSeq(P, 1, Len(P) - 1),
                assignRes(st, pop, Fun(type, st.heap, st.res, pop)))

\* the while loop of _product: P is the array of the operands still to be
\* popped, st.res the object held by res
RECURSIVE productLoop(_, _, _)
productLoop(type, P, st) ==
    IF P = << >> \/ st.threw THEN st
    ELSE LET pop == P[Len(P)]
         IN productLoop(type, SubSeq(P, 1, Len(P) - 1),
                assignRes(st, pop, Fun(type, st.heap, pop, st.res)))

\* _product(P, type, fun) for the array P of objects of the heap h
_product(h, P, type) ==
    IF P = << >> THEN Alloc(h, nullitope)
    ELSE LET res == P[Len(P)]
         IN setConstruction(h, type,
                productLoop(type, SubSeq(P, 1, Len(P) - 1),
                    [heap |-> h, res |-> res, threw |-> FALSE,
                     constructions |-> <<h[res].construction>>]))

(* --------------------------- the state machine ------------------------- *)
\* the polygons {n/d} the operands are drawn from, n = 3..MaxN and
\* d = 1..MaxD with d < n
Polygons ==
    Flatten([nn \in 1..(MaxN - 2) |->
        [d \in 1..(IF MaxD < nn + 1 THEN MaxD ELSE nn + 1) |->
            regularPolygon(nn + 2, d)]])

\* the polytopes the callers build before they take products
Builders == <<nullitope, point, dyad>> \o Polygons

\* the choices of 1..MaxInit different builders, in the order of Builders
Picks ==
    {s \in UNION {[1..k -> 1..Len(Builders)] : k \in 1..MaxInit} :
        \A k \in 1..(Len(s) - 1) : s[k] < s[k + 1]}

\* the number of elements of an object, its nullitope included
NumElements(P) ==
    LET els == P.elementList
        RECURSIVE Sum(_)
        Sum(r) == IF r > Len(els) THEN 0 ELSE Len(els[r]) + Sum(r + 1)
    IN 1 + Sum(1)

RECURSIVE ProdElements(_, _)
ProdElements(h, P) ==
    IF P = << >> THEN 1
    ELSE NumElements(h[Head(P)]) * ProdElements(h, Tail(P))

\* the callers keep the products small: a product has at most as many
\* elements as the product of the numbers of elements of its factors
Small(h, P) == ProdElements(h, P) <= MaxCells

ArgLists(h) == UNION {[1..k -> 1..Len(h)] : k \in 0..MaxArgs}

Init ==
    /\ \E s \in Picks : heap = [k \in 1..Len(s) |-> Builders[s[k]]]
    /\ op = "none"
    /\ args = << >>
    /\ ret = 0
    /\ calls = 0

\* one call prism(...P), tegum(...P) or pyramid(...P); ret = 0 when the call
\* ended with an exception
Call(type, P) ==
    /\ calls < MaxCalls
    /\ Small(heap, P)
    /\ \E r \in {_product(heap, P, type)} :
          /\ heap' = r.heap
          /\ ret' = r.ret
    /\ op' = type
    /\ args' = P
    /\ calls' = calls + 1

prism == \E P \in ArgLists(heap) : Call("Multiprism", P)

tegum == \E P \in ArgLists(heap) : Call("Multitegum", P)

pyramid == \E P \in ArgLists(heap) : Call("Multipyramid", P)

Next == prism \/ tegum \/ pyramid

Spec == Init /\ [][Next]_vars

(* ------------------------ what the claims use -------------------------- *)
\* the element list of the k-th operand of the last call, and of its result
Operand(k) == heap[args[k]].elementList

Result == heap[ret].elementList

\* a call of the given product with two operands that returned
Binary(type) == op = type /\ Len(args) = 2 /\ ret # 0

RECURSIVE SumSeq(_)
SumSeq(s) == IF s = << >> THEN 0 ELSE Head(s) + SumSeq(Tail(s))

\* every facet index of every cell of rank >= 1 names a cell of the rank below
WellFormed(els) ==
    \A r \in 2..Len(els) : \A c \in 1..Len(els[r]) :
        \A k \in 1..Len(els[r][c]) :
            els[r][c][k] \in 0..(Len(els[r - 1]) - 1)

NonEmptyRanks(els) == \A r \in 1..Len(els) : Len(els[r]) > 0

\* the number of cells of rank m + n that _prism pushes before the first
\* product of an m-element and an n-element: the products of the pairs of
\* ranks (m', m + n - m') with m' < m
PrismCount(P, Q, m, n) ==
    SumSeq([k \in 1..m |->
        IF m + n - (k - 1) <= Len(Q) - 1
        THEN Count(P, k - 1) * Count(Q, m + n - (k - 1)) ELSE 0])

PrismPos(P, Q, m, i, n, j) == PrismCount(P, Q, m, n) + i * Count(Q, n) + j

\* the facets that the Leibniz rule gives the product of the i-th m-element
\* of P and the j-th n-element of Q
PrismFacets(P, Q, m, i, n, j) ==
    (IF m = 0 THEN << >>
     ELSE [k \in 1..Len(P[m + 1][i + 1]) |->
              PrismPos(P, Q, m - 1, P[m + 1][i + 1][k], n, j)])
    \o (IF n = 0 THEN << >>
        ELSE [k \in 1..Len(Q[n + 1][j + 1]) |->
                 PrismPos(P, Q, m, i, n - 1, Q[n + 1][j + 1][k])])

PrismOperands ==
    /\ Binary("Multiprism")
    /\ Len(Operand(1)) >= 2 /\ Len(Operand(2)) >= 2
    /\ WellFormed(Operand(1)) /\ WellFormed(Operand(2))
    /\ NonEmptyRanks(Operand(1)) /\ NonEmptyRanks(Operand(2))

\* C1: in prism(P, Q) for well-formed operands of rank >= 1 with non-empty
\* rank lists, the product of the i-th rank-m cell of P and the j-th rank-n
\* cell of Q is at position count(m,n) + i*|Q rank n| + j of rank m + n, and
\* its facets are the positions of (f x q-cell) for the facets f of the
\* p-cell, then of (p-cell x g) for the facets g of the q-cell
C1_PrismIndices ==
    PrismOperands =>
        LET P == Operand(1)
            Q == Operand(2)
        IN \A m \in 0..(Len(P) - 1) : \A n \in 0..(Len(Q) - 1) :
           \A i \in 0..(Count(P, m) - 1) : \A j \in 0..(Count(Q, n) - 1) :
              LET pos == PrismPos(P, Q, m, i, n, j)
              IN /\ pos < Len(Result[m + n + 1])
                 /\ Result[m + n + 1][pos + 1] =
                        IF m + n = 0
                        THEN PointProduct(P[1][i + 1], Q[1][j + 1])
                        ELSE PrismFacets(P, Q, m, i, n, j)

\* a prism of two polygons was taken: cells of every pair of ranks 0..2
C1_Witness ==
    /\ PrismOperands
    /\ Len(Operand(1)) = 3 /\ Len(Operand(2)) = 3
    /\ Len(Result) = 5

\* C5: for well-formed P and Q of rank >= 1, prism(P, Q) has, at every rank
\* r = 0..dim P + dim Q, the sum over m + n = r of |P rank m| * |Q rank n|
\* cells, and prism(dyad, dyad) has 4 vertices, 4 edges and 1 face
C5_PrismCounts ==
    /\ Binary("Multiprism") /\ Len(Operand(1)) >= 2 /\ Len(Operand(2)) >= 2
       /\ WellFormed(Operand(1)) /\ WellFormed(Operand(2)) =>
        LET P == Operand(1)
            Q == Operand(2)
        IN /\ Len(Result) = Len(P) - 1 + Len(Q) - 1 + 1
           /\ \A r \in 0..(Len(Result) - 1) :
                Count(Result, r) =
                    SumSeq([mm \in 1..Len(P) |->
                        IF r - (mm - 1) \in 0..(Len(Q) - 1)
                        THEN Count(P, mm - 1) * Count(Q, r - (mm - 1))
                        ELSE 0])
    /\ Binary("Multiprism") /\ Operand(1) = dyad.elementList
       /\ Operand(2) = dyad.elementList =>
        [r \in 1..Len(Result) |-> Len(Result[r])] = <<4, 4, 1>>

\* a prism of a polygon and a dyad was taken
C5_Witness ==
    /\ Binary("Multiprism")
    /\ Len(Operand(1)) = 3 /\ Len(Operand(2)) = 2
    /\ WellFormed(Operand(1)) /\ WellFormed(Operand(2))
    /\ Len(Result) = 4

\* the subelements of the idx-th element of rank r of X, the nullitope
\* being the single element of rank -1, with index 0
SubElements(X, r, idx) ==
    IF r = -1 THEN << >> ELSE IF r = 0 THEN <<0>> ELSE X[r + 1][idx + 1]

\* the number of cells of rank m + n + 1 that _tegum and _pyramid store
\* before the first product of an m-element and an n-element: the products
\* of the pairs of ranks (m', m + n - m') with -1 <= m' < m, the ranks of Q
\* going up to nMax
TegumCount(P, Q, m, n, nMax) ==
    SumSeq([k \in 1..(m + 1) |->
        IF m + n - (k - 2) <= nMax
        THEN DimCount(P, k - 2) * DimCount(Q, m + n - (k - 2)) ELSE 0])

TegumPos(P, Q, m, i, n, j, nMax) ==
    TegumCount(P, Q, m, n, nMax)
    + (IF m = -1 THEN j ELSE IF n = -1 THEN i ELSE i * Count(Q, n) + j)

\* the facets that the shifted Leibniz rule gives the product of the i-th
\* m-element of P and the j-th n-element of Q
TegumFacets(P, Q, m, i, n, j, nMax) ==
    [k \in 1..Len(SubElements(P, m, i)) |->
        TegumPos(P, Q, m - 1, SubElements(P, m, i)[k], n, j, nMax)]
    \o [k \in 1..Len(SubElements(Q, n, j)) |->
        TegumPos(P, Q, m, i, n - 1, SubElements(Q, n, j)[k], nMax)]

\* a tegum of two operands of rank >= 1 or a pyramid of two operands of rank
\* >= 0 was built from well-formed operands
TegumOperands ==
    /\ \/ Binary("Multitegum")
          /\ Len(Operand(1)) >= 2 /\ Len(Operand(2)) >= 2
       \/ Binary("Multipyramid")
          /\ Len(Operand(1)) >= 1 /\ Len(Operand(2)) >= 1
    /\ WellFormed(Operand(1)) /\ WellFormed(Operand(2))

\* the largest ranks of P and Q that the four nested loops of the last call
\* reach
LoopMax(k) ==
    IF op = "Multitegum" THEN Len(Operand(k)) - 2 ELSE Len(Operand(k)) - 1

\* the vertex of the result made of the vertex v of P (side "P") or Q
ProductVertex(side, v) ==
    LET padded == IF side = "Q"
                  THEN padLeft(v, spaceDimensions(heap[args[1]]))
                  ELSE padRight(v, spaceDimensions(heap[args[2]]))
    IN IF op = "Multitegum" THEN padded
       ELSE addCoordinate(padded, IF side = "Q" THEN 1 ELSE -1)

\* C2: in pyramid(P, Q) and below the top rank of tegum(P, Q), the product
\* of the p-cell (m,i) and the q-cell (n,j), m, n >= -1 and m + n >= 0, is
\* stored in rank m + n + 1 at the position that getIndexOfTegumProduct
\* computes for it, and its facet indices are the positions of the products
\* it refers to; the vertices of Q are at 0..|Q0|-1, those of P follow
C2_TegumIndices ==
    TegumOperands =>
        LET P == Operand(1)
            Q == Operand(2)
            nMax == LoopMax(2)
        IN /\ \A m \in -1..LoopMax(1) : \A n \in -1..nMax :
              \A i \in 0..(DimCount(P, m) - 1) :
              \A j \in 0..(DimCount(Q, n) - 1) :
                 m + n >= 0 =>
                    LET pos == TegumPos(P, Q, m, i, n, j, nMax)
                    IN /\ pos < Len(Result[m + n + 2])
                       /\ Result[m + n + 2][pos + 1] =
                              TegumFacets(P, Q, m, i, n, j, nMax)
           /\ Len(Result[1]) = Count(Q, 0) + Count(P, 0)
           /\ \A j \in 0..(Count(Q, 0) - 1) :
                 Result[1][j + 1] = ProductVertex("Q", Q[1][j + 1])
           /\ \A i \in 0..(Count(P, 0) - 1) :
                 Result[1][Count(Q, 0) + i + 1] =
                     ProductVertex("P", P[1][i + 1])

\* a pyramid of two polygons was taken
C2_WitnessPyramid ==
    /\ TegumOperands /\ op = "Multipyramid"
    /\ Len(Operand(1)) = 3 /\ Len(Operand(2)) = 3
    /\ Len(Result) = 6

\* C3 (as claimed): the component pass of tegum(P, Q) stores, for every
\* pair (component i of P, component j of Q), one top-rank cell whose facets
\* are the positions of the products (f, g) of every facet f of the one and
\* every facet g of the other, each once and none undefined; the face of
\* tegum(dyad, dyad) names all 4 edges
C3_TegumComponents ==
    Binary("Multitegum") /\ Len(Operand(1)) >= 2 /\ Len(Operand(2)) >= 2
    /\ WellFormed(Operand(1)) /\ WellFormed(Operand(2)) =>
        LET P == Operand(1)
            Q == Operand(2)
            m == Len(P) - 1
            n == Len(Q) - 1
            top == Result[Len(Result)]
        IN /\ Len(Result) = m + n + 1
           /\ Len(top) = Count(P, m) * Count(Q, n)
           /\ \A i \in 0..(Count(P, m) - 1) : \A j \in 0..(Count(Q, n) - 1) :
                LET cell == top[i * Count(Q, n) + j + 1]
                IN /\ \A k \in 1..Len(cell) : IsNum(cell[k])
                   /\ Cardinality(Range(cell)) = Len(cell)
                   /\ Range(cell) =
                        {TegumPos(P, Q, m - 1, f, n - 1, g, n - 1) :
                            f \in Range(P[m + 1][i + 1]),
                            g \in Range(Q[n + 1][j + 1])}

\* C4 (as claimed): every facet index of every cell of rank k >= 1 of every
\* polytope, built or returned by a product, is an index of rank k - 1
C4_ValidFacets == \A o \in 1..Len(heap) : WellFormed(heap[o].elementList)

\* C6: prism with the point returns the element lists of the other operand,
\* prism with the nullitope (the other not being the point) the nullitope,
\* whichever side the point or the nullitope is on
C6_PrismIdentity ==
    Binary("Multiprism") =>
        /\ Len(Operand(1)) = 1 => Result = Operand(2)
        /\ Len(Operand(2)) = 1 => Result = Operand(1)
        /\ (Len(Operand(1)) = 0 \/ Len(Operand(2)) = 0)
           /\ Len(Operand(1)) # 1 /\ Len(Operand(2)) # 1 => Result = << >>

\* the prism of a polytope of rank >= 1 and the point, in this order
C6_Witness ==
    Binary("Multiprism") /\ Len(Operand(1)) >= 2 /\ Len(Operand(2)) = 1

\* C7 (as claimed): tegum(nullitope, P) and tegum(P, nullitope) both return
\* the element lists of P
C7_TegumIdentity ==
    Binary("Multitegum") =>
        /\ Len(Operand(1)) = 0 => Result = Operand(2)
        /\ Len(Operand(2)) = 0 => Result = Operand(1)

\* C8: pyramid(nullitope, P) and pyramid(P, nullitope) both return the
\* element lists of P, and the pyramid of two operands of rank >= 0 has
\* dim P + dim Q + 2 rank lists
C8_PyramidIdentity ==
    Binary("Multipyramid") =>
        /\ Len(Operand(1)) = 0 => Result = Operand(2)
        /\ Len(Operand(2)) = 0 => Result = Operand(1)
        /\ Len(Operand(1)) >= 1 /\ Len(Operand(2)) >= 1 =>
              Len(Result) = (Len(Operand(1)) - 1) + (Len(Operand(2)) - 1) + 2

\* the pyramid of a polytope of rank >= 1 and the nullitope, in this order
C8_Witness ==
    Binary("Multipyramid") /\ Len(Operand(1)) >= 2 /\ Len(Operand(2)) = 0

\* C9 (as claimed): the object a product call returns is never one of the
\* objects it was given
C9_FreshResult == op # "none" => ret \notin Range(args)

\* f(P1, f(P2, ... f(P(k-1), Pk))) for the operands P = P1..Pk, k >= 1
RECURSIVE RightFold(_, _, _)
RightFold(type, h, P) ==
    IF Len(P) = 1 THEN Return(h, P[1])
    ELSE LET r == RightFold(type, h, Tail(P))
         IN Fun(type, r.heap, Head(P), r.ret)

\* C10: a product call of k >= 2 operands returns f(P1, f(P2, ... f(P(k-1),
\* Pk))), of no operand the nullitope, and the construction of the result
\* has one child per operand
C10_RightToLeft ==
    op # "none" /\ ret # 0 =>
        /\ Len(args) = 0 => Result = << >>
        /\ Len(args) >= 1 =>
              LET r == RightFold(op, heap, args)
              IN /\ Result = r.heap[r.ret].elementList
                 /\ heap[ret].construction.type = op
                 /\ Len(heap[ret].construction.child) = Len(args)

\* a pyramid of three operands, not all the same object, none the nullitope
C10_Witness ==
    /\ op = "Multipyramid" /\ Len(args) = 3 /\ ret # 0
    /\ \A k \in 1..3 : Len(Operand(k)) >= 1
    /\ args[1] # args[2]

(* ------------------------ malformed operands --------------------------- *)
\* the object P with the k-th index of its c-th cell of rank r replaced by
\* the first index past the end of rank r - 1: new PolytopeC(elementList)
\* takes any element list
Corrupt(P, r, c, k) ==
    PolytopeC([P.elementList EXCEPT ![r + 1][c][k] = Len(P.elementList[r])],
              P.construction)

\* the objects with one index out of range that the callers hand over
Corrupted(P) ==
    {Corrupt(P, r, c, k) : <<r, c, k>> \in
        {t \in (1..2) \X (1..MaxN) \X (1..MaxN) :
            /\ t[1] + 1 <= Len(P.elementList)
            /\ t[2] <= Len(P.elementList[t[1] + 1])
            /\ t[3] <= Len(P.elementList[t[1] + 1][t[2]])}}

InitMalformed ==
    /\ \E bad \in Corrupted(dyad) \cup Corrupted(regularPolygon(3, 1)) :
       \E rest \in {<< >>, <<dyad>>, <<regularPolygon(3, 1)>>} :
            heap = <<bad>> \o rest
    /\ op = "none"
    /\ args = << >>
    /\ ret = 0
    /\ calls = 0

SpecMalformed == InitMalformed /\ [][Next]_vars

\* C11: a call of prism, tegum or pyramid with two or more operands of rank
\* >= 1, one of which has a facet index out of range for the rank below,
\* ends with an error and returns no polytope
C11_MalformedRejected ==
    /\ op # "none" /\ Len(args) >= 2
    /\ \A k \in 1..Len(args) : Len(Operand(k)) >= 2
    /\ \E k \in 1..Len(args) : ~WellFormed(Operand(k))
    => ret = 0

(* --------------------- the bit-trick builders -------------------------- *)
\* largest dimension the bit-trick builders are called with
MaxDim == 3
\* the width of the bit operations: every operand is below 2^Width
Width == 8

Pow2(k) == 2 ^ k

\* a & b and a ^ b for 0 <= a, b < 2^Width
RECURSIVE BitAnd(_, _)
BitAnd(a, b) ==
    IF a = 0 \/ b = 0 THEN 0
    ELSE (a % 2) * (b % 2) + 2 * BitAnd(a \div 2, b \div 2)

RECURSIVE BitXor(_, _)
BitXor(a, b) ==
    IF a = 0 THEN b ELSE IF b = 0 THEN a
    ELSE ((a + b) % 2) + 2 * BitXor(a \div 2, b \div 2)

\* ~a on Width bits
BitNot(a) == Pow2(Width) - 1 - a

\* do { push(t & ~(t - 1)); t = t & (t - 1) } while (t > 0): the bits of t,
\* lowest first; the body runs once for t = 0 too
RECURSIVE Differences(_)
Differences(t) ==
    <<BitAnd(t, BitNot((t - 1) % Pow2(Width)))>>
    \o (IF BitAnd(t, (t - 1) % Pow2(Width)) > 0
        THEN Differences(BitAnd(t, (t - 1) % Pow2(Width))) ELSE << >>)

\* locations: the rows that are arrays and the entries that were assigned
NoLocations == [rows |-> {}, val |-> [x \in {} |-> 0]]

\* locations[a] = [] and locations[a] = [v]
LocRow(locations, a) ==
    [rows |-> locations.rows \cup {a},
     val |-> [x \in {y \in DOMAIN locations.val : y[1] # a} |->
                 locations.val[x]]]

\* the reading of an entry of a row that is undefined ends the call
TypeError == -3

\* locations[a][b]
LocGet(locations, a, b) ==
    IF a \notin locations.rows THEN TypeError
    ELSE IF <<a, b>> \in DOMAIN locations.val THEN locations.val[<<a, b>>]
    ELSE undefined

\* locations[a][b] = v
LocSet(locations, a, b, v) ==
    [rows |-> locations.rows, val |-> (<<a, b>> :> v) @@ locations.val]

\* the coordinates of vertex j of the hypercube: 1 stands for 0.5 and -1
\* for -0.5
hypercubeCoordinates(dims, j) ==
    [k \in 1..dims |->
        IF j % Pow2(k) < Pow2(k - 1) THEN 1 ELSE -1]

\* hypercubeFacets without the facets connected to i ^ j
hypercubeFacets_half(locations, i, j, differences) ==
    [k \in 1..Len(differences) |->
        LocGet(locations, j, BitXor(i, differences[k]))]

\* the facets of the cell of the pair (i, j): those connected to i, then
\* those connected to i ^ j
hypercubeFacets(locations, i, j, differences) ==
    [k \in 1..Len(differences) |->
        LocGet(locations, j, BitXor(i, differences[k]))]
    \o [k \in 1..Len(differences) |->
        LocGet(locations, BitXor(j, differences[k]),
               BitXor(i, differences[k]))]

\* els[elementDimension].push(facets) and locations[j][i] = its index;
\* early records a facet that was read before it was written, or that is
\* not a cell of the rank below yet
hypercubePush(st, i, j, elementDimension, facets) ==
    IF \E k \in 1..Len(facets) : facets[k] = TypeError
    THEN [st EXCEPT !.threw = TRUE]
    ELSE [els |-> [st.els EXCEPT ![elementDimension + 1] = Append(@, facets)],
          locations |-> LocSet(st.locations, j, i,
                               Len(st.els[elementDimension + 1])),
          early |-> st.early \/ \E k \in 1..Len(facets) :
                      facets[k] \notin 0..(Len(st.els[elementDimension]) - 1),
          threw |-> FALSE]

\* the body of the loop over j of hypercube for the pass c = <<i, j>>
hypercubeStep(dims, c, st) ==
    IF c[1] = 0
    THEN [els |-> [st.els EXCEPT ![1] =
                      Append(@, hypercubeCoordinates(dims, c[2]))],
          locations |-> LocSet(LocRow(st.locations, c[2]), c[2], 0,
                               Len(st.els[1])),
          early |-> st.early, threw |-> FALSE]
    ELSE IF BitAnd(c[2], c[1]) # 0 THEN st
    ELSE hypercubePush(st, c[1], c[2], Len(Differences(c[1])),
             hypercubeFacets(st.locations, c[1], c[2], Differences(c[1])))

\* the loop over i of hypercube with the cells of higher rank first: after
\* i = 0, i runs down from 2^dimensions - 1 to 1
hypercubeI_down(dims, n) == IF n = 0 THEN 0 ELSE Pow2(dims) - n

\* the value of i in pass n of the loop over i of hypercube
hypercubeI(dims, n) == n

RECURSIVE hypercubeLoopJ(_, _, _, _)
hypercubeLoopJ(dims, i, j, st) ==
    IF j >= Pow2(dims) \/ st.threw THEN st
    ELSE hypercubeLoopJ(dims, i, j + 1, hypercubeStep(dims, <<i, j>>, st))

RECURSIVE hypercubeLoopI(_, _, _)
hypercubeLoopI(dims, n, st) ==
    IF n >= Pow2(dims) \/ st.threw THEN st
    ELSE hypercubeLoopI(dims, n + 1,
                        hypercubeLoopJ(dims, hypercubeI(dims, n), 0, st))

\* the state of hypercube(dimensions) when its loops have ended
hypercubeRun(dims) ==
    hypercubeLoopI(dims, 0,
                   [els |-> [r \in 1..(dims + 1) |-> << >>],
                    locations |-> NoLocations, early |-> FALSE,
                    threw |-> FALSE])

hypercube(dims) ==
    PolytopeC(hypercubeRun(dims).els,
              Leaf("Hypercube", ToString(dims)))

\* the coordinates of vertex i of the simplex: 1 and -1 stand for 0.5 and
\* -0.5 (j * aux[j] and -aux[j] for j = 1), 50 + j for j * aux[j] and
\* -(60 + j) for -aux[j] when j > 1
simplexCoordinates(dims, i) ==
    [j \in 1..dims |->
        IF j > i THEN (IF j = 1 THEN -1 ELSE -(60 + j))
        ELSE IF j = i THEN (IF j = 1 THEN 1 ELSE 50 + j)
        ELSE 0]

\* locations[a] of simplex, an array of numbers
simplexGet(locations, a) ==
    IF a \in DOMAIN locations THEN locations[a] ELSE undefined

\* simplexFacets with the lowest vertex cleared for every facet
simplexFacets_lowest(locations, i, elemVertices) ==
    [k \in 1..Len(elemVertices) |->
        simplexGet(locations, BitXor(i, elemVertices[1]))]

\* facets of the cell of the bitmask i: locations[i ^ elemVertices[k]]
simplexFacets(locations, i, elemVertices) ==
    [k \in 1..Len(elemVertices) |->
        simplexGet(locations, BitXor(i, elemVertices[k]))]

\* locations[i] = els[elementDimension].length and
\* els[elementDimension].push(facets)
simplexPush(st, i, elementDimension, facets) ==
    [els |-> [st.els EXCEPT ![elementDimension + 1] = Append(@, facets)],
     locations |-> (i :> Len(st.els[elementDimension + 1])) @@ st.locations,
     threw |-> FALSE]

\* the body of the loop over i of simplex
simplexStep(i, st) ==
    IF BitAnd(i, i - 1) = 0 THEN st
    ELSE simplexPush(st, i, Len(Differences(i)) - 1,
                     simplexFacets(st.locations, i, Differences(i)))

RECURSIVE simplexLoop(_, _, _)
simplexLoop(dims, i, st) ==
    IF i >= Pow2(dims + 1) \/ st.threw THEN st
    ELSE simplexLoop(dims, i + 1, simplexStep(i, st))

\* the state of simplex(dimensions) when its loop has ended
simplexRun(dims) ==
    simplexLoop(dims, 1,
        [els |-> [r \in 1..(dims + 1) |->
                     IF r = 1
                     THEN [v \in 1..(dims + 1) |->
                              simplexCoordinates(dims, v - 1)]
                     ELSE << >>],
         locations |-> [a \in {Pow2(v) : v \in 0..dims} |->
                           CHOOSE v \in 0..dims : Pow2(v) = a],
         threw |-> FALSE])

simplex(dims) ==
    PolytopeC(simplexRun(dims).els, Leaf("Simplex", ToString(dims)))

\* the coordinates of the vertex of cross for the bit i and the sign of j:
\* 70 stands for Math.SQRT1_2
crossCoordinates(dims, i, j) ==
    [k \in 1..dims |->
        IF Pow2(k - 1) = i THEN (IF j # 0 THEN -70 ELSE 70) ELSE 0]

\* facets of the cell of the pair (i, j):
\* locations[i ^ elemVertices[k]][j & ~elemVertices[k]]
crossFacets(locations, i, j, elemVertices) ==
    [k \in 1..Len(elemVertices) |->
        LocGet(locations, BitXor(i, elemVertices[k]),
               BitAnd(j, BitNot(elemVertices[k])))]

\* locations[i][j] = els[elementDimension].length and
\* els[elementDimension].push(facets)
crossPush(st, i, j, elementDimension, facets) ==
    IF \E k \in 1..Len(facets) : facets[k] = TypeError
    THEN [st EXCEPT !.threw = TRUE]
    ELSE [els |-> [st.els EXCEPT ![elementDimension + 1] = Append(@, facets)],
          locations |-> LocSet(st.locations, i, j,
                               Len(st.els[elementDimension + 1])),
          threw |-> FALSE]

\* if (!j) locations[i] = []
crossRow(locations, i, j) ==
    IF j = 0 THEN LocRow(locations, i) ELSE locations

\* the body of the loop over j of cross for the pair (i, j)
crossStep(dims, i, j, st) ==
    IF BitAnd(i, j) # j THEN st
    ELSE IF BitAnd(i, i - 1) = 0
    THEN [els |-> [st.els EXCEPT ![1] =
                      Append(@, crossCoordinates(dims, i, j))],
          locations |-> LocSet(crossRow(st.locations, i, j), i, j,
                               Len(st.els[1])),
          threw |-> FALSE]
    ELSE crossPush([st EXCEPT !.locations = crossRow(@, i, j)], i, j,
                   Len(Differences(i)) - 1,
                   crossFacets(crossRow(st.locations, i, j), i, j,
                               Differences(i)))

RECURSIVE crossLoopJ(_, _, _, _)
crossLoopJ(dims, i, j, st) ==
    IF j >= Pow2(dims) \/ st.threw THEN st
    ELSE crossLoopJ(dims, i, j + 1, crossStep(dims, i, j, st))

RECURSIVE crossLoopI(_, _, _)
crossLoopI(dims, i, st) ==
    IF i >= Pow2(dims) \/ st.threw THEN st
    ELSE crossLoopI(dims, i + 1, crossLoopJ(dims, i, 0, st))

\* the full polytope: for (i = 0; i < els[dimensions - 1].length; i++)
\* facets.push(i), then els[dimensions].push(facets); els[-1] is undefined
\* and the reading of its length ends the call
crossFull(dims, st) ==
    IF st.threw \/ dims - 1 < 0 THEN [st EXCEPT !.threw = TRUE]
    ELSE [st EXCEPT !.els[dims + 1] =
              Append(@, [k \in 1..Len(st.els[dims]) |-> k - 1])]

\* the state of cross(dimensions) at its end
crossRun(dims) ==
    crossFull(dims,
        crossLoopI(dims, 1,
                   [els |-> [r \in 1..(dims + 1) |-> << >>],
                    locations |-> NoLocations, threw |-> FALSE]))

cross(dims) == PolytopeC(crossRun(dims).els, Leaf("Cross", ToString(dims)))

(* ----------------- antiprisms, cupolas and their kin ------------------- *)
\* the point [r * cos(pi * a * d / n), r * sin(pi * a * d / n), z] for the
\* radius and the height with the tokens r and z: the angle is a * d half
\* steps of the 2n-gon when a counts half steps, and the tokens of two
\* points of one polytope are equal only if their reals are
polar(r, a, n, d, z) ==
    <<1000 * r + 2 * ((a * d) % (4 * n)) + 2,
      1000 * r + 2 * ((a * d) % (4 * n)) + 3, z>>

\* new ConstructionNode(type, new ConstructionNode(Polygon, [n, d]))
OfPolygon(type, n, d) ==
    Multi(type, <<Leaf("Polygon", ToString(n) \o "/" \o ToString(d))>>)

\* uniformAntiprism(n, d): the while loop pushes the elements of the
\* vertices i = 0..2n - 3, two in each pass, then come the last two
uniformAntiprism(n, d) ==
    LET last == 2 * n - 1
        vertex(i) == polar(1, 2 * i, n, d, IF i % 2 = 0 THEN 90 ELSE -90)
        edges(i) == IF i < last - 1 THEN <<<<i, i + 1>>, <<i, i + 2>>>>
                    ELSE IF i = last - 1 THEN <<<<i, i + 1>>, <<i, 0>>>>
                    ELSE <<<<i, 0>>, <<i, 1>>>>
        triangle(i) == IF i < last THEN <<2 * i, 2 * i + 1, 2 * i + 2>>
                       ELSE <<2 * i, 2 * i + 1, 0>>
        base1 == [k \in 1..n |-> 2 * (2 * (k - 1)) + 1]
        base2 == [k \in 1..n |-> 2 * (2 * (k - 1) + 1) + 1]
    IN PolytopeC(<<[k \in 1..(2 * n) |-> vertex(k - 1)],
                   Flatten([k \in 1..(2 * n) |-> edges(k - 1)]),
                   <<base1, base2>> \o [k \in 1..(2 * n) |-> triangle(k - 1)],
                   <<[k \in 1..(2 * (n + 1)) |-> k - 1]>>>>,
                 OfPolygon("Antiprism", n, d))

\* cupola(n, d): the loop over the small base (i = 0..n - 2, then the last
\* elements for i = n - 1), the loop over the big base (i = 0..2n - 2, then
\* the last elements for i = 2n - 1), and the component
cupola(n, d) ==
    LET small(i) == polar(1, 4 * i, n, d, 91)
        big(i) == polar(2, 2 * i - 1, n, d, 92)
        edges(i) == <<IF i < n - 1 THEN <<i, i + 1>> ELSE <<i, 0>>,
                      <<i, n + 2 * i>>, <<i, n + 2 * i + 1>>>>
        faces(i) == <<<<3 * i + 1, 3 * i + 2, 3 * n + 2 * i>>,
                      <<3 * i + 2, 3 * n + 2 * i + 1,
                        IF i < n - 1 THEN 3 * i + 4 ELSE 1, 3 * i>>>>
        bigEdge(i) == IF i < 2 * n - 1 THEN <<n + i, n + i + 1>>
                      ELSE <<n + i, n>>
        base1 == [k \in 1..n |-> 3 * (k - 1)]
        base2 == [k \in 1..(2 * n) |-> 3 * n + (k - 1)]
    IN PolytopeC(<<[k \in 1..n |-> small(k - 1)]
                       \o [k \in 1..(2 * n) |-> big(k - 1)],
                   Flatten([k \in 1..n |-> edges(k - 1)])
                       \o [k \in 1..(2 * n) |-> bigEdge(k - 1)],
                   <<base1, base2>> \o Flatten([k \in 1..n |-> faces(k - 1)]),
                   <<[k \in 1..(2 * n + 2) |-> k - 1]>>>>,
                 OfPolygon("Cupola", n, d))

\* cuploid with the connecting edges of cupola: n + 2i and n + 2i + 1
\* without the "% n"
cuploid_nomod(n, d) ==
    LET small(i) == polar(1, 4 * i, n, d, 91)
        big(i) == polar(2, 2 * i - 1, n, d, 92)
        edges(i) == IF i < n - 1
                    THEN <<<<i, i + 1>>, <<i, n + 2 * i>>,
                           <<i, n + 2 * i + 1>>>>
                    ELSE <<<<i, 0>>, <<i, 2 * i>>, <<i, 2 * i + 1>>>>
        faces(i) == IF i < n - 1
                    THEN <<<<3 * i + 1, 3 * i + 2, 3 * n + ((2 * i) % n)>>,
                           <<3 * i + 2, 3 * n + ((2 * i + 1) % n),
                             3 * i + 4, 3 * i>>>>
                    ELSE <<<<3 * i + 1, 3 * i + 2, 2 * n + 2 * i>>,
                           <<3 * i + 2, 2 * n + 2 * i + 1, 1, 3 * i>>>>
        bigEdge(i) == IF i < n - 1 THEN <<n + i, n + i + 1>>
                      ELSE <<n + i, n>>
        base == [k \in 1..n |-> 3 * (k - 1)]
    IN PolytopeC(<<[k \in 1..n |-> small(k - 1)]
                       \o [k \in 1..n |-> big(k - 1)],
                   Flatten([k \in 1..n |-> edges(k - 1)])
                       \o [k \in 1..n |-> bigEdge(k - 1)],
                   <<base>> \o Flatten([k \in 1..n |-> faces(k - 1)]),
                   <<[k \in 1..(2 * n + 1) |-> k - 1]>>>>,
                 OfPolygon("Cuploid", n, d))

\* cuploid(n, d): as cupola, with a big base of n vertices that is no face
cuploid(n, d) ==
    LET small(i) == polar(1, 4 * i, n, d, 91)
        big(i) == polar(2, 2 * i - 1, n, d, 92)
        edges(i) == IF i < n - 1
                    THEN <<<<i, i + 1>>, <<i, n + ((2 * i) % n)>>,
                           <<i, n + ((2 * i + 1) % n)>>>>
                    ELSE <<<<i, 0>>, <<i, 2 * i>>, <<i, 2 * i + 1>>>>
        faces(i) == IF i < n - 1
                    THEN <<<<3 * i + 1, 3 * i + 2, 3 * n + ((2 * i) % n)>>,
                           <<3 * i + 2, 3 * n + ((2 * i + 1) % n),
                             3 * i + 4, 3 * i>>>>
                    ELSE <<<<3 * i + 1, 3 * i + 2, 2 * n + 2 * i>>,
                           <<3 * i + 2, 2 * n + 2 * i + 1, 1, 3 * i>>>>
        bigEdge(i) == IF i < n - 1 THEN <<n + i, n + i + 1>>
                      ELSE <<n + i, n>>
        base == [k \in 1..n |-> 3 * (k - 1)]
    IN PolytopeC(<<[k \in 1..n |-> small(k - 1)]
                       \o [k \in 1..n |-> big(k - 1)],
                   Flatten([k \in 1..n |-> edges(k - 1)])
                       \o [k \in 1..n |-> bigEdge(k - 1)],
                   <<base>> \o Flatten([k \in 1..n |-> faces(k - 1)]),
                   <<[k \in 1..(2 * n + 1) |-> k - 1]>>>>,
                 OfPolygon("Cuploid", n, d))

\* cupolaicBlend(n, d): the loop over the two small bases (i = 0..2n - 3,
\* then the last elements for i = 2n - 2 and i = 2n - 1), the loop over the
\* big base, and the component
cupolaicBlend(n, d) ==
    LET last == 2 * n - 1
        small(i) == polar(1, 2 * i, n, d, 91)
        big(i) == polar(2, 2 * i - 1, n, d, 92)
        edges(i) ==
            IF i < last - 1
            THEN <<<<i, i + 2>>, <<i, 2 * n + i>>, <<i, 2 * n + i + 1>>>>
            ELSE IF i = last - 1
            THEN <<<<i, 0>>, <<i, 2 * n + i>>, <<i, 2 * n + i + 1>>>>
            ELSE <<<<i, 1>>, <<i, 2 * n + i>>, <<i, 2 * n>>>>
        faces(i) ==
            <<<<3 * i + 1, 3 * i + 2, 6 * n + i>>,
              IF i < last - 1
              THEN <<3 * i + 2, 6 * n + i + 1, 3 * i + 7, 3 * i>>
              ELSE IF i = last - 1
              THEN <<3 * i + 2, 6 * n + i + 1, 1, 3 * i>>
              ELSE <<3 * i + 2, 6 * n, 4, 3 * i>>>>
        bigEdge(i) == IF i < 2 * n - 1 THEN <<2 * n + i, 2 * n + i + 1>>
                      ELSE <<2 * n + i, 2 * n>>
        base1 == [k \in 1..n |-> 3 * (2 * (k - 1))]
        base2 == [k \in 1..n |-> 3 * (2 * (k - 1) + 1)]
    IN PolytopeC(<<[k \in 1..(2 * n) |-> small(k - 1)]
                       \o [k \in 1..(2 * n) |-> big(k - 1)],
                   Flatten([k \in 1..(2 * n) |-> edges(k - 1)])
                       \o [k \in 1..(2 * n) |-> bigEdge(k - 1)],
                   <<base1, base2>>
                       \o Flatten([k \in 1..(2 * n) |-> faces(k - 1)]),
                   <<[k \in 1..(2 * n + 1) |-> k - 1]>>>>,
                 OfPolygon("CupolaicBlend", n, d))

(* --------------------- the builders' state machine --------------------- *)
\* largest number of sides the polygonal builders are called with
MaxSides == 7

InitBuild ==
    /\ heap = << >>
    /\ op = "none"
    /\ args = << >>
    /\ ret = 0
    /\ calls = 0

\* one call of a builder with the parameters params: r is Alloc(heap, P)
\* for the polytope P it returns, Throw(heap) when it ends with an exception
Build(name, params, r) ==
    /\ op = "none"
    /\ heap' = r.heap
    /\ ret' = r.ret
    /\ op' = name
    /\ args' = params
    /\ calls' = calls + 1

buildHypercube ==
    \E dims \in 0..MaxDim :
        Build("hypercube", <<dims>>,
              IF hypercubeRun(dims).threw THEN Throw(heap)
              ELSE Alloc(heap, hypercube(dims)))

buildSimplex ==
    \E dims \in 0..MaxDim :
        Build("simplex", <<dims>>,
              IF simplexRun(dims).threw THEN Throw(heap)
              ELSE Alloc(heap, simplex(dims)))

buildCross ==
    \E dims \in 0..MaxDim :
        Build("cross", <<dims>>,
              IF crossRun(dims).threw THEN Throw(heap)
              ELSE Alloc(heap, cross(dims)))

buildRegularPolygon ==
    \E n \in 2..MaxSides : \E d \in 1..(n - 1) :
        Build("regularPolygon", <<n, d>>, Alloc(heap, regularPolygon(n, d)))

buildUniformAntiprism ==
    \E n \in 3..MaxSides : \E d \in 1..(n - 1) :
        Build("uniformAntiprism", <<n, d>>,
              Alloc(heap, uniformAntiprism(n, d)))

buildCupola ==
    \E n \in 3..MaxSides : \E d \in 1..(n - 1) :
        Build("cupola", <<n, d>>, Alloc(heap, cupola(n, d)))

buildCuploid ==
    \E n \in 3..MaxSides : \E d \in 1..(n - 1) :
        Build("cuploid", <<n, d>>, Alloc(heap, cuploid(n, d)))

buildCupolaicBlend ==
    \E n \in 3..MaxSides : \E d \in 1..(n - 1) :
        Build("cupolaicBlend", <<n, d>>, Alloc(heap, cupolaicBlend(n, d)))

NextBuild ==
    \/ buildHypercube
    \/ buildSimplex
    \/ buildCross
    \/ buildRegularPolygon
    \/ buildUniformAntiprism
    \/ buildCupola
    \/ buildCuploid
    \/ buildCupolaicBlend

SpecBuild == InitBuild /\ [][NextBuild]_vars

(* ------------------- what the builders' claims use --------------------- *)
\* the binomial coefficient C(n, k)
RECURSIVE Binomial(_, _)
Binomial(n, k) ==
    IF k < 0 \/ k > n THEN 0
    ELSE IF k = 0 THEN 1
    ELSE Binomial(n - 1, k - 1) + Binomial(n - 1, k)

\* the numbers of cells of the ranks 0..Len(els) - 1
Counts(els) == [r \in 1..Len(els) |-> Len(els[r])]

\* a builder with the given name was called and returned
Returned(name) == op = name /\ ret # 0

\* the vertices of the idx-th cell of rank r
RECURSIVE VertexSet(_, _, _)
VertexSet(els, r, idx) ==
    IF r = 0 THEN {idx}
    ELSE UNION {VertexSet(els, r - 1, els[r + 1][idx + 1][k]) :
                    k \in 1..Len(els[r + 1][idx + 1])}

\* C12: for every d >= 0, cross(d) returns a polytope with 2d vertices,
\* C(d, k+1) * 2^(k+1) cells of rank k for 0 <= k < d, and one cell of rank
\* d whose facets are the indices 0..(number of cells of rank d-1) - 1, each
\* once and in order
C12_CrossCounts ==
    op = "cross" =>
        /\ ret # 0
        /\ LET d == args[1]
           IN /\ Len(Result) = d + 1
              /\ \A k \in 0..(d - 1) :
                    Count(Result, k) = Binomial(d, k + 1) * Pow2(k + 1)
              /\ Count(Result, d) = 1
              /\ Result[d + 1][1] =
                    [k \in 1..Len(Result[d]) |-> k - 1]

\* C13: for every d >= 0, simplex(d) has C(d+1, k+1) cells of rank k for
\* 0 <= k <= d (d + 1 vertices), the cells of one rank have different
\* vertex sets, and a cell of rank k >= 1 with the vertex set S has k + 1
\* facets, which are the cells with the vertex sets S \ {v} for the v in S
C13_SimplexCells ==
    Returned("simplex") =>
        LET d == args[1]
        IN /\ Len(Result) = d + 1
           /\ \A k \in 0..d : Count(Result, k) = Binomial(d + 1, k + 1)
           /\ \A k \in 1..d : \A c \in 0..(Count(Result, k) - 1) :
                LET S == VertexSet(Result, k, c)
                    facets == Result[k + 1][c + 1]
                IN /\ Len(facets) = k + 1
                   /\ Cardinality(S) = k + 1
                   /\ \A f \in 1..Len(facets) :
                        facets[f] \in 0..(Count(Result, k - 1) - 1)
                   /\ {VertexSet(Result, k - 1, facets[f]) :
                           f \in 1..Len(facets)} = {S \ {v} : v \in S}
                   /\ \A c2 \in 0..(Count(Result, k) - 1) :
                        c2 # c => VertexSet(Result, k, c2) # S

\* simplex(3) was built: 4 vertices, 6 edges, 4 faces and the tetrahedron
C13_Witness ==
    Returned("simplex") /\ args[1] = 3 /\ Counts(Result) = <<4, 6, 4, 1>>

\* C14: for every d >= 0, hypercube(d) has C(d, k) * 2^(d-k) cells of rank
\* k for 0 <= k <= d, every cell of rank k >= 1 has 2k facets, and the
\* hypercubes of dimension 0, 1 and 2 have 1 vertex, 2 vertices and 1 edge,
\* 4 vertices, 4 edges and 1 face
C14_HypercubeCells ==
    Returned("hypercube") =>
        LET d == args[1]
        IN /\ Len(Result) = d + 1
           /\ \A k \in 0..d :
                Count(Result, k) = Binomial(d, k) * Pow2(d - k)
           /\ \A k \in 1..d : \A c \in 1..Count(Result, k) :
                Len(Result[k + 1][c]) = 2 * k
           /\ d = 0 => Counts(Result) = <<1>>
           /\ d = 1 => Counts(Result) = <<2, 1>>
           /\ d = 2 => Counts(Result) = <<4, 4, 1>>

\* hypercube(3) was built: 8 vertices, 12 edges, 6 faces and the cube
C14_Witness ==
    Returned("hypercube") /\ args[1] = 3
    /\ Counts(Result) = <<8, 12, 6, 1>>

\* C15: in hypercube(d), every entry of locations that the cell of a pair
\* (i, j) reads was written in an earlier pass and is the index of a cell
\* that the rank below already holds at that time, so that every facet
\* index of the result is defined and names a cell of the rank below
C15_FacetsFirst ==
    Returned("hypercube") =>
        /\ ~hypercubeRun(args[1]).early
        /\ \A k \in 1..args[1] : \A c \in 1..Count(Result, k) :
           \A f \in 1..Len(Result[k + 1][c]) :
                Result[k + 1][c][f] \in 0..(Count(Result, k - 1) - 1)

\* a hypercube with faces was built: its faces read the entries of edges,
\* both of the family of i and of the family of i ^ j
C15_Witness ==
    /\ Returned("hypercube") /\ args[1] >= 2
    /\ \E c \in 1..Count(Result, 2) : Len(Result[3][c]) = 4

\* C16: for n >= 2, 1 <= d < n and g = gcd(n, d), regularPolygon(n, d) has
\* n vertices, n edges and g components; the edges join every vertex i to
\* the vertex (i + d) mod n; component c lists the n/g consecutive edge
\* indices from c * n/g, which form one closed cycle through n/g vertices;
\* the components are disjoint and cover the n edges; regularPolygon(6, 2)
\* has 2 components of 3 edges and 3 vertices each
C16_PolygonComponents ==
    Returned("regularPolygon") =>
        LET n == args[1]
            d == args[2]
            g == gcd(n, d)
            edges == Result[2]
            comps == Result[3]
            len == n \div g
        IN /\ Counts(Result) = <<n, n, g>>
           /\ \A e \in 1..n :
                /\ edges[e][1] \in 0..(n - 1)
                /\ edges[e] = <<edges[e][1], (edges[e][1] + d) % n>>
           /\ {edges[e][1] : e \in 1..n} = 0..(n - 1)
           /\ \A c \in 1..g :
                /\ comps[c] = [k \in 1..len |-> (c - 1) * len + k - 1]
                /\ \A k \in 1..len :
                     edges[comps[c][k] + 1][2] =
                         edges[comps[c][(k % len) + 1] + 1][1]
                /\ Cardinality({edges[comps[c][k] + 1][1] : k \in 1..len})
                       = len
           /\ \A c1 \in 1..g : \A c2 \in 1..g :
                c1 # c2 => Range(comps[c1]) \cap Range(comps[c2]) = {}
           /\ UNION {Range(comps[c]) : c \in 1..g} = 0..(n - 1)
           /\ (n = 6 /\ d = 2) =>
                /\ Len(comps) = 2
                /\ \A c \in 1..2 :
                     /\ Len(comps[c]) = 3
                     /\ Cardinality(VertexSet(Result, 2, c - 1)) = 3

\* regularPolygon(6, 2) was built: a compound of two triangles
C16_Witness ==
    /\ Returned("regularPolygon") /\ args = <<6, 2>>
    /\ Len(Result[3]) = 2

\* the builders of antiprisms, cupolas, cuploids and cupolaic blends
Families == {"uniformAntiprism", "cupola", "cuploid", "cupolaicBlend"}

\* no index occurs twice in the cell
NoRepeat(cell) ==
    \A k1 \in 1..Len(cell) : \A k2 \in 1..Len(cell) :
        k1 # k2 => cell[k1] # cell[k2]

\* C17: the top-rank component lists of the polytope a builder returns
\* partition the list of the rank below: every index of that list is in
\* exactly one component, exactly once
C17_ComponentsPartition ==
    op # "none" /\ ret # 0 /\ Len(Result) >= 2 =>
        LET top == Result[Len(Result)]
            all == Flatten(top)
        IN /\ Range(all) = 0..(Len(Result[Len(Result) - 1]) - 1)
           /\ NoRepeat(all)

\* C18: for n >= 3 and d coprime to n, in the result of uniformAntiprism,
\* cupola, cuploid and cupolaicBlend every edge names two different
\* vertices that exist, every face names edges that exist, and no cell
\* names an index twice
C18_FamiliesWellFormed ==
    op \in Families /\ ret # 0 /\ args[1] >= 3 /\ gcd(args[1], args[2]) = 1
    =>  /\ Len(Result) = 4
        /\ \A e \in 1..Count(Result, 1) :
            /\ Len(Result[2][e]) = 2
            /\ Result[2][e][1] # Result[2][e][2]
            /\ \A k \in 1..2 :
                 Result[2][e][k] \in 0..(Count(Result, 0) - 1)
        /\ \A f \in 1..Count(Result, 2) :
            /\ NoRepeat(Result[3][f])
            /\ \A k \in 1..Len(Result[3][f]) :
                 Result[3][f][k] \in 0..(Count(Result, 1) - 1)

\* the cuploid of the pentagram {5/2} was built: its connecting edges wrap
\* around the big base
C18_Witness ==
    /\ Returned("cuploid") /\ args = <<5, 2>>
    /\ Counts(Result) = <<10, 20, 11, 1>>

\* C19: uniformAntiprism, cupola, cuploid and cupolaicBlend called with
\* gcd(n, d) > 1 end with an error and return no polytope
C19_NotCoprimeRejected ==
    op \in Families /\ gcd(args[1], args[2]) > 1 => ret = 0

(* ------------------------ checkCommonElements -------------------------- *)
\* longest array checkCommonElements is called with
MaxLen == 3
\* largest index in these arrays
MaxIdx == 2

\* the loop over a[from..to] (source indices) of checkCommonElements: vals
\* is the set of the keys k with vals[k] = true, found whether the loop
\* ended with return true
RECURSIVE commonLoop(_, _, _, _)
commonLoop(a, i, to, st) ==
    IF st.found \/ i > to THEN st
    ELSE commonLoop(a, i + 1, to,
                    [vals |-> st.vals \cup {At(a, i)},
                     found |-> At(a, i) \in st.vals])

\* the first loop of checkCommonElements, after vals[a[0]] = true, which
\* sets vals[undefined] when a is empty
commonFirst(a) ==
    commonLoop(a, 1, Len(a) - 1, [vals |-> {At(a, 0)}, found |-> FALSE])

\* return !!vals[b[i]] for the i the second loop ended with, when it ended
commonLast(b, st) ==
    st.found \/ At(b, IF Len(b) = 0 THEN 0 ELSE Len(b) - 1) \in st.vals

checkCommonElements(a, b) ==
    commonLast(b, commonLoop(b, 0, Len(b) - 2, commonFirst(a)))

\* the arrays of at most MaxLen indices 0..MaxIdx
Arrays == UNION {[1..k -> 0..MaxIdx] : k \in 0..MaxLen}

\* one call checkCommonElements(a, b)
common ==
    /\ op = "none"
    /\ \E a \in Arrays : \E b \in Arrays :
        /\ ret' = checkCommonElements(a, b)
        /\ args' = <<a, b>>
    /\ op' = "checkCommonElements"
    /\ calls' = calls + 1
    /\ UNCHANGED heap

NextCommon == common

SpecCommon == InitBuild /\ [][NextCommon]_vars

\* C20: checkCommonElements(a, b) returns true exactly when some index
\* occurs both in a and in b
C20_CommonElements ==
    op = "checkCommonElements" =>
        (ret <=> Range(args[1]) \cap Range(args[2]) # {})

(* ------------------------------ OFF files ------------------------------ *)
\* The contents of a file are the sequence of its tokens: a number n is
\* Number(n), a word w is Word(w).  The counts and the indices of the files
\* are naturals; a coordinate is any token of a builder.
Number(n) == [word |-> "", n |-> n]

Word(w) == [word |-> w, n |-> 0]

\* the caret stands before a number
IsNumberAt(contents, pos) == pos <= Len(contents) /\ contents[pos].word = ""

\* caret.readNumber(): the number at the caret, which then moves past it;
\* NaN, with the caret left in place, when no number is there
readNumber(contents, pos) ==
    IF IsNumberAt(contents, pos) THEN contents[pos].n ELSE NaN

afterNumber(contents, pos) ==
    IF IsNumberAt(contents, pos) THEN pos + 1 ELSE pos

\* caret.readWord(): the token at the caret read as a word
readWord(contents, pos) ==
    IF pos > Len(contents) THEN ""
    ELSE IF contents[pos].word = "" THEN ToString(contents[pos].n)
    ELSE contents[pos].word

afterWord(contents, pos) == IF pos > Len(contents) THEN pos ELSE pos + 1

\* for(j = 0; j < count; j++) indices.push(caret.readNumber()); the caret
\* is at a place from 1 on (the loops that read test it at each pass, which
\* makes TLC evaluate their state pass by pass)
RECURSIVE readNumbers(_, _, _, _)
readNumbers(contents, j, count, st) ==
    IF ~(IsNum(count) /\ j < count /\ st.pos >= 1) THEN st
    ELSE readNumbers(contents, j + 1, count,
                     [indices |-> Append(st.indices,
                                         readNumber(contents, st.pos)),
                      pos |-> afterNumber(contents, st.pos)])

\* x < y of the source, false when an operand is not a number
Less(x, y) == IsNum(x) /\ IsNum(y) /\ x < y

\* (x + y + 1) * (x + y) / 2 + y, the Cantor pairing function
Cantor(x, y) ==
    IF IsNum(x) /\ IsNum(y) THEN ((x + y + 1) * (x + y)) \div 2 + y ELSE NaN

\* the edge of the vertices x and y, the larger first: a new pair gets the
\* next index of elementList[1] and its place in edgeList, and the edge's
\* index is pushed to the face
offEdgeOrdered(st, x, y) ==
    IF Cantor(x, y) \in DOMAIN st.edgeList
    THEN [st EXCEPT !.face = Append(@, st.edgeList[Cantor(x, y)])]
    ELSE [st EXCEPT !.edges = Append(@, <<x, y>>),
                    !.edgeList = @ @@ (Cantor(x, y) :> Len(st.edges)),
                    !.face = Append(@, Len(st.edges))]

offEdge(st, x, y) ==
    IF Less(x, y) THEN offEdgeOrdered(st, y, x) ELSE offEdgeOrdered(st, x, y)

\* for(j = 0; j < elCount - 1; j++): the edge of indices[j], indices[j + 1]
RECURSIVE offFaceEdges(_, _, _, _)
offFaceEdges(indices, j, elCount, st) ==
    IF ~(IsNum(elCount) /\ j < elCount - 1 /\ Len(st.face) = j) THEN st
    ELSE offFaceEdges(indices, j + 1, elCount,
                      offEdge(st, At(indices, j), At(indices, j + 1)))

\* the last edge, of indices[0] and indices[indices.length - 1], and
\* elementList[2].push(face)
offFaceLast(indices, st) ==
    offEdge(st, At(indices, 0), At(indices, Len(indices) - 1))

offFacePush(st, pos) ==
    [pos |-> pos, edges |-> st.edges, edgeList |-> st.edgeList,
     faces |-> Append(st.faces, st.face), face |-> << >>]

\* one face: its count, its vertex indices, its edges
offFace(contents, elCount, r, st) ==
    offFacePush(offFaceLast(r.indices,
                    offFaceEdges(r.indices, 0, elCount, st)), r.pos)

offFaceRead(contents, st) ==
    offFace(contents, readNumber(contents, st.pos),
            readNumbers(contents, 0, readNumber(contents, st.pos),
                        [indices |-> << >>,
                         pos |-> afterNumber(contents, st.pos)]), st)

\* for(i = 0; i < elementCount[2]; i++)
RECURSIVE offFaces(_, _, _, _)
offFaces(contents, i, count, st) ==
    IF ~(IsNum(count) /\ i < count /\ st.pos >= 1) THEN st
    ELSE offFaces(contents, i + 1, count, offFaceRead(contents, st))

\* the counts of the header: the vertices; then the faces and the skipped
\* number of edges (dimensions >= 3) or the components (dimensions = 2);
\* then the ranks 3..dimensions - 1
offCountsHigher(contents, dims, r) ==
    readNumbers(contents, 3, dims,
                [indices |-> <<At(r.indices, 0), 0, At(r.indices, 1)>>,
                 pos |-> afterWord(contents, r.pos)])

offCountsPolygon(r) ==
    [indices |-> <<At(r.indices, 0), 0, At(r.indices, 1)>>, pos |-> r.pos]

offCounts(contents, dims, pos) ==
    IF dims >= 3
    THEN offCountsHigher(contents, dims,
             readNumbers(contents, 0, 2, [indices |-> << >>, pos |-> pos]))
    ELSE IF dims = 2
    THEN offCountsPolygon(
             readNumbers(contents, 0, 2, [indices |-> << >>, pos |-> pos]))
    ELSE IF dims >= 1
    THEN readNumbers(contents, 0, 1, [indices |-> << >>, pos |-> pos])
    ELSE [indices |-> << >>, pos |-> pos]

\* elementList[0].push(new Point(coords)) with the coordinates read
offPoint(st, r) == [cells |-> Append(st.cells, r.indices), pos |-> r.pos]

\* for(i = 0; i < elementCount[0]; i++): dimensions coordinates each
RECURSIVE offVertices(_, _, _, _, _)
offVertices(contents, i, count, dims, st) ==
    IF ~(IsNum(count) /\ i < count /\ st.pos >= 1) THEN st
    ELSE offVertices(contents, i + 1, count, dims,
             offPoint(st, readNumbers(contents, 0, dims,
                              [indices |-> << >>, pos |-> st.pos])))

\* one cell of a rank >= 3: its count, then its facet indices as written
offCell(contents, st) ==
    offPoint(st, readNumbers(contents, 0, readNumber(contents, st.pos),
                     [indices |-> << >>,
                      pos |-> afterNumber(contents, st.pos)]))

\* for(j = 0; j < elementCount[i]; j++)
RECURSIVE offCells(_, _, _, _)
offCells(contents, j, count, st) ==
    IF ~(IsNum(count) /\ j < count /\ st.pos >= 1) THEN st
    ELSE offCells(contents, j + 1, count, offCell(contents, st))

offRank(st, r) == [ranks |-> Append(st.ranks, r.cells), pos |-> r.pos]

\* for(i = 3; i < dimensions; i++)
RECURSIVE offRanks(_, _, _, _, _)
offRanks(contents, i, dims, elementCount, st) ==
    IF i >= dims \/ st.pos < 1 THEN st
    ELSE offRanks(contents, i + 1, dims, elementCount,
             offRank(st, offCells(contents, 0, At(elementCount, i),
                                  [cells |-> << >>, pos |-> st.pos])))

(* ------------------------ connectivity detector ------------------------ *)
\* graph[i].connectTo(graph[j]) for every i < j whose facets
\* checkCommonElements finds to have a common element
incidences(facets) ==
    {e \in (0..(Len(facets) - 1)) \X (0..(Len(facets) - 1)) :
        e[1] < e[2] /\ checkCommonElements(facets[e[1] + 1], facets[e[2] + 1])}

\* the nodes of S and their neighbours
neighbours(graph, S) ==
    S \cup {e[2] : e \in {f \in graph : f[1] \in S}}
      \cup {e[1] : e \in {f \in graph : f[2] \in S}}

\* the nodes a traversal from the nodes of S visits
RECURSIVE traversal(_, _)
traversal(graph, S) ==
    IF neighbours(graph, S) = S THEN S
    ELSE traversal(graph, neighbours(graph, S))

\* the values of the nodes of S as a list
RECURSIVE ValuesOf(_)
ValuesOf(S) ==
    IF S = {} THEN << >>
    ELSE <<CHOOSE x \in S : \A y \in S : x <= y>>
         \o ValuesOf(S \ {CHOOSE x \in S : \A y \in S : x <= y})

\* graph[i].getComponent(): nothing for a node an earlier traversal has
\* visited, else the values of the nodes reached from it, which it visits
getComponent(graph, i, st) ==
    IF i \in st.visited THEN st
    ELSE [visited |-> st.visited \cup traversal(graph, {i}),
          components |-> Append(st.components,
                                ValuesOf(traversal(graph, {i})))]

\* for(i = 0; i < facets.length; i++), pushing the components found
RECURSIVE getComponents(_, _, _, _)
getComponents(graph, i, length, st) ==
    IF i >= length \/ ~(st.visited \subseteq 0..(length - 1))
    THEN st.components
    ELSE getComponents(graph, i + 1, length, getComponent(graph, i, st))

\* the top rank of an imported file of dimension >= 3
offComponents(facets) ==
    getComponents(incidences(facets), 0, Len(facets),
                  [visited |-> {}, components |-> << >>])

(* ------------------------------ onloadOFF ------------------------------ *)
\* the element list when the ranks 3..dimensions - 1 are read: the top rank
\* is the one component of all the vertices (dimensions = 1), the faces
\* read as the components (dimensions = 2), or the components the
\* detector finds among the cells of the rank dimensions - 1
offTop(dims, lower) ==
    IF dims = 1
    THEN <<lower[1], <<[k \in 1..Len(lower[1]) |-> k - 1]>>>>
    ELSE IF dims >= 3
    THEN Append(lower, offComponents(lower[Len(lower)]))
    ELSE lower

offLower(dims, points, f, r) ==
    IF dims >= 3 THEN <<points, f.edges, f.faces>> \o r.ranks
    ELSE IF dims = 2 THEN <<points, f.edges, f.faces>>
    ELSE IF dims = 1 THEN <<points, << >> >>
    ELSE <<points>>

offHigher(contents, dims, elementCount, points, f) ==
    offTop(dims, offLower(dims, points, f,
                 offRanks(contents, 3, dims, elementCount,
                          [ranks |-> << >>, pos |-> f.pos])))

offFacesOf(contents, dims, elementCount, v) ==
    offHigher(contents, dims, elementCount, v.cells,
        offFaces(contents, 0, IF dims >= 2 THEN At(elementCount, 2) ELSE 0,
                 [pos |-> v.pos, edges |-> << >>, edgeList |-> << >>,
                  faces |-> << >>, face |-> << >>]))

offElementList(contents, dims, c) ==
    offFacesOf(contents, dims, c.indices,
        offVertices(contents, 0, At(c.indices, 0), dims,
                    [cells |-> << >>, pos |-> c.pos]))

\* globalThis.P = new PolytopeC(elementList, new ConstructionNode(Name, ..))
offStore(h, elementList) == Alloc(h, PolytopeC(elementList, Leaf("Name", "")))

\* onloadOFF(contents): the dimension is 3 when the file starts with OFF
onloadOFF(h, contents) ==
    LET dims == IF IsNumberAt(contents, 1) THEN contents[1].n ELSE 3
        pos == afterNumber(contents, 1)
    IN IF readWord(contents, pos) # "OFF" THEN Throw(h)
       ELSE IF dims = -1 THEN Alloc(h, nullitope)
       ELSE IF dims = 0 THEN Alloc(h, point)
       ELSE offStore(h, offElementList(contents, dims,
                offCounts(contents, dims, afterWord(contents, pos))))

(* ----------------------- the files that are read ------------------------ *)
\* most faces (or components, or cells of rank 3) in a file
MaxFaces == 3
\* largest vertex index a face of a file lists
MaxVertex == 5
\* most indices in one face or cell of a file
MaxRun == 3

Numbers(s) == [k \in 1..Len(s) |-> Number(s[k])]

\* the lists a, a + 1, .. of at most MaxRun indices up to max
Runs(max) ==
    {[k \in 1..len |-> a + k - 1] : a \in 0..max, len \in 1..MaxRun}
        \cap UNION {[1..len -> 0..max] : len \in 1..MaxRun}

\* the lists of at most n members of S
ListsOf(S, n) == UNION {[1..k -> S] : k \in 0..n}

\* the lines of the cells: the count of each, then its indices
CellLines(cells) ==
    Flatten([k \in 1..Len(cells) |-> <<Len(cells[k])>> \o cells[k]])

\* a file of the dimension dims that declares nV vertices (at the origin),
\* the faces and, for each rank from 3, the cells given
OFFFile(dims, nV, faces, higher) ==
    (IF dims = 3 THEN <<Word("OFF")>> ELSE <<Number(dims), Word("OFF")>>)
    \o Numbers((IF dims >= 3 THEN <<nV, Len(faces), 0>>
                ELSE IF dims = 2 THEN <<nV, Len(faces)>> ELSE <<nV>>)
               \o [k \in 1..Len(higher) |-> Len(higher[k])]
               \o Zeros(nV * dims)
               \o CellLines(faces)
               \o Flatten([k \in 1..Len(higher) |-> CellLines(higher[k])]))

\* the declared number of vertices covers every index of a run or leaves
\* the largest out
Declared == {MaxVertex, MaxVertex + 1}

\* the contents of the files opened: broken headers, and files of the
\* dimensions 1 to 4 with vertex indices up to maxVertex and up to maxFaces
\* faces
Files(maxVertex, maxFaces) ==
    {<<Number(3)>>, <<Number(-1), Word("OFF")>>, <<Number(0), Word("OFF")>>}
    \cup {OFFFile(1, nV, << >>, << >>) : nV \in 0..2}
    \cup {OFFFile(2, nV, faces, << >>) :
            nV \in Declared, faces \in ListsOf(Runs(maxVertex), 2)}
    \cup {OFFFile(3, nV, faces, << >>) :
            nV \in Declared, faces \in ListsOf(Runs(maxVertex), maxFaces)}
    \cup {OFFFile(4, maxVertex + 1, faces, <<cells>>) :
            faces \in [1..2 -> Runs(maxVertex)],
            cells \in ListsOf(Runs(2), 2)}

\* FileOperations.onloadOFF(contents) for the contents of a file
importOFF ==
    /\ op = "none"
    /\ \E contents \in Files(MaxVertex, MaxFaces) :
        /\ \E r \in {onloadOFF(heap, contents)} :
            /\ heap' = r.heap
            /\ ret' = r.ret
        /\ args' = <<contents>>
    /\ op' = "onloadOFF"
    /\ calls' = calls + 1

NextOFF == importOFF

SpecOFF == InitBuild /\ [][NextOFF]_vars

\* a file was imported and a polytope of a dimension >= 3 stored
Imported == op = "onloadOFF" /\ ret # 0 /\ dimensions(heap[ret]) >= 3

\* the facets that share a subelement index with a facet of S, and S
Sharing(facets, S) ==
    S \cup {g \in 0..(Len(facets) - 1) :
              \E f \in S : Range(facets[f + 1]) \cap Range(facets[g + 1]) # {}}

\* the facets that a chain of facets, each sharing a subelement index with
\* the next, links to a facet of S
RECURSIVE Chained(_, _)
Chained(facets, S) ==
    IF Sharing(facets, S) = S THEN S ELSE Chained(facets, Sharing(facets, S))

\* the places of the top rank that hold the facet index f
PlacesOf(top, f) ==
    {p \in (1..Len(top)) \X (1..MaxCells) :
        p[2] <= Len(top[p[1]]) /\ top[p[1]][p[2]] = f}

\* C21: the top rank of an imported file of dimension >= 3 partitions the
\* facets, every facet index being in exactly one component, and two facets
\* are in the same component exactly when a chain of facets, each sharing a
\* subelement index with the next, links them
C21_ComponentsByChains ==
    Imported =>
        LET els == heap[ret].elementList
            facets == els[Len(els) - 1]
            top == els[Len(els)]
        IN /\ \A f \in 0..(Len(facets) - 1) :
                Cardinality(PlacesOf(top, f)) = 1
           /\ \A c \in 1..Len(top) : Range(top[c]) \subseteq 0..(Len(facets) - 1)
           /\ \A f \in 0..(Len(facets) - 1) : \A g \in 0..(Len(facets) - 1) :
                (\E c \in 1..Len(top) : {f, g} \subseteq Range(top[c]))
                    <=> g \in Chained(facets, {f})

\* C22: a file in which a face lists a vertex index, or a higher cell a
\* facet index, that is not below the declared count of the lower rank is
\* rejected and nothing is stored: every polytope that onloadOFF stores has
\* only indices below the counts of the rank below
C22_OutOfRangeRejected ==
    op = "onloadOFF" /\ ret # 0 => WellFormed(heap[ret].elementList)

(* ------------------------------ saveAsOFF ------------------------------ *)
\* the vertex cycle of a face from its edges: from the last vertex found,
\* the walk takes the first edge not yet used that holds it and adds that
\* edge's other vertex, until no such edge is left
RECURSIVE cycleWalk(_, _, _)
cycleWalk(edges, rest, vertices) ==
    LET cur == vertices[Len(vertices)]
        next == {k \in rest : cur \in Range(edges[k])}
        k == CHOOSE a \in next : \A b \in next : a <= b
    IN IF next = {} THEN vertices
       ELSE cycleWalk(edges, rest \ {k},
                Append(vertices, IF edges[k][1] = cur THEN edges[k][2]
                                 ELSE edges[k][1]))

\* P.faceToVertices(i): the vertices of the face i in the order of its cycle
faceToVertices(els, i) ==
    LET face == els[3][i + 1]
    IN IF face = << >> THEN << >>
       ELSE cycleWalk([k \in 1..Len(face) |-> els[2][face[k] + 1]],
                      2..Len(face), els[2][face[1] + 1])

\* the header: the word OFF after the dimension, which is left out when it
\* is 3, then the counts of the vertices, of the faces (of the components
\* when the dimension is 2), of the edges and of the ranks from 3 up
offHeader(els) ==
    LET d == Len(els) - 1
    IN IF d < 1 THEN <<Number(d), Word("OFF")>>
       ELSE IF d = 1 THEN <<Number(1), Word("OFF"), Number(Len(els[1]))>>
       ELSE IF d = 2
       THEN <<Number(2), Word("OFF"), Number(Len(els[1])), Number(Len(els[3]))>>
       ELSE IF d = 3
       THEN <<Word("OFF"), Number(Len(els[1])), Number(Len(els[3])),
              Number(Len(els[2]))>>
       ELSE <<Number(d), Word("OFF"), Number(Len(els[1])),
              Number(Len(els[3])), Number(Len(els[2]))>>
            \o [i \in 1..(d - 4) |-> Number(Len(els[i + 3]))]
            \o <<Number(Len(els[d]))>>

\* the line of a vertex: dimensions coordinates, 0 for a missing one
offVertexLine(dims, coordinates) ==
    [j \in 1..dims |->
        Number(IF j <= Len(coordinates) THEN coordinates[j] ELSE 0)]

\* the line of the face i: the number of its edges, then as many vertices of
\* faceToVertices(i)
offFaceLine(length, vertices) ==
    <<Number(length)>> \o [j \in 1..length |-> Number(At(vertices, j - 1))]

\* vertices[j].toString() on a missing vertex throws
offFaceThrows(els, i) ==
    Len(faceToVertices(els, i)) < Len(els[3][i + 1])

\* the lines of the cells of the ranks 3..dimensions - 1
offRestLines(els) ==
    Numbers(Flatten([d \in 1..(Len(els) - 4) |-> CellLines(els[d + 3])]))

\* the text of saveAsOFF(polytope) as its tokens
offData(els) ==
    offHeader(els)
    \o (IF Len(els) >= 1
        THEN Flatten([i \in 1..Len(els[1]) |->
                         offVertexLine(Len(els) - 1, els[1][i])])
        ELSE << >>)
    \o (IF Len(els) >= 3
        THEN Flatten([i \in 1..Len(els[3]) |->
                         offFaceLine(Len(els[3][i]),
                                     faceToVertices(els, i - 1))])
        ELSE << >>)
    \o offRestLines(els)

\* saveAsOFF(polytope): an error when the polytope lies in a space of more
\* dimensions than its own
saveAsOFF(P) ==
    IF spaceDimensions(P) > dimensions(P) THEN [threw |-> TRUE, data |-> << >>]
    ELSE IF Len(P.elementList) >= 3
            /\ \E i \in 1..Len(P.elementList[3]) :
                  offFaceThrows(P.elementList, i - 1)
    THEN [threw |-> TRUE, data |-> << >>]
    ELSE [threw |-> FALSE, data |-> offData(P.elementList)]

(* --------------------- saving and reading back ------------------------- *)
\* largest rank of the polytopes of hypercube, simplex and cross saved
MaxRank == 4

buildDyad == Build("dyad", << >>, Alloc(heap, dyad))

buildRanked ==
    \E dims \in 1..MaxRank :
        \/ Build("hypercube", <<dims>>, Alloc(heap, hypercube(dims)))
        \/ Build("simplex", <<dims>>, Alloc(heap, simplex(dims)))
        \/ Build("cross", <<dims>>, Alloc(heap, cross(dims)))

\* saveAsOFF(P) for the polytope a builder has just returned: the text is
\* kept in args
exportOFF ==
    /\ op \notin {"none", "saveAsOFF", "onloadOFF"}
    /\ ret # 0
    /\ \E r \in {saveAsOFF(heap[ret])} :
        /\ args' = <<r.data>>
        /\ ret' = IF r.threw THEN 0 ELSE ret
    /\ op' = "saveAsOFF"
    /\ calls' = calls + 1
    /\ UNCHANGED heap

\* onloadOFF of the text that saveAsOFF wrote
importSaved ==
    /\ op = "saveAsOFF"
    /\ ret # 0
    /\ \E r \in {onloadOFF(heap, args[1])} :
        /\ heap' = r.heap
        /\ ret' = r.ret
    /\ op' = "onloadOFF"
    /\ calls' = calls + 1
    /\ UNCHANGED args

NextRoundTrip ==
    \/ buildDyad
    \/ buildRanked
    \/ buildRegularPolygon
    \/ buildUniformAntiprism
    \/ buildCupola
    \/ buildCuploid
    \/ buildCupolaicBlend
    \/ exportOFF
    \/ importSaved

SpecRoundTrip == InitBuild /\ [][NextRoundTrip]_vars

\* the polytope of the builder has a rank from 1 to 4 and lies in a space
\* of as many dimensions
Exportable ==
    /\ Len(heap) >= 1
    /\ dimensions(heap[1]) \in 1..4
    /\ spaceDimensions(heap[1]) = dimensions(heap[1])

\* C23: a builder's polytope of rank 1 to 4, in a space of as many
\* dimensions, is exported by saveAsOFF, and onloadOFF of the text stores a
\* polytope with the same number of cells at every rank
C23_RoundTripCounts ==
    Exportable =>
        /\ op = "saveAsOFF" => ret # 0
        /\ op = "onloadOFF" =>
              /\ ret # 0
              /\ Counts(heap[ret].elementList) = Counts(heap[1].elementList)

(* -------------------------- extrudeToPyramid --------------------------- *)
\* most extrusions of one polytope
MaxExtrude == 2

\* the apex for a height: dimensions zeros, then the height
heightApex(dims, apex) == Append(Zeros(dims), apex)

\* els = [i], then the facets of the cell plus oldElNumbers[d - 1]
extrudeEls_nooffset(cell, i, oldElNumber) == <<i>> \o cell

extrudeEls(cell, i, oldElNumber) ==
    <<i>> \o [j \in 1..Len(cell) |-> cell[j] + oldElNumber]

\* the list of rank d at the end: its old cells, then for d = 0 the apex,
\* for d = 1 the edge [i, oldElNumbers[0]] of every old vertex i, for
\* d >= 2 the cell of extrudeEls for every old cell i of the rank d - 1
extrudeRank(elementList, d, apex) ==
    IF d = 0 THEN Append(elementList[1], apex)
    ELSE IF d = 1
    THEN elementList[2]
         \o [i \in 1..Len(elementList[1]) |-> <<i - 1, Len(elementList[1])>>]
    ELSE elementList[d + 1]
         \o [i \in 1..Len(elementList[d]) |->
                extrudeEls(elementList[d][i], i - 1, Len(elementList[d]))]

\* the element list at the end, from the list with the new empty top rank
extrudeList(elementList, apex) ==
    [r \in 1..Len(elementList) |-> extrudeRank(elementList, r - 1, apex)]

\* P.extrudeToPyramid(apex) for the object p of the heap: the point for the
\* nullitope, else P itself, grown
extrudeToPyramid(h, p, apex) ==
    IF Len(h[p].elementList) = 0
    THEN Alloc(h, PolytopeC(<< << << >> >> >>, Leaf("Name", "")))
    ELSE Return([h EXCEPT ![p] =
                    PolytopeC(extrudeList(Append(h[p].elementList, << >>), apex),
                              Multi("Pyramid", <<h[p].construction>>))], p)

\* one call of extrudeToPyramid on the polytope a builder returned, with a
\* height or with a point: args keeps the element list before the call
extrude ==
    /\ op # "none"
    /\ ret # 0
    /\ calls <= MaxExtrude
    /\ \E byHeight \in BOOLEAN :
        \E r \in {extrudeToPyramid(heap, ret,
                     IF byHeight THEN heightApex(dimensions(heap[ret]), 90)
                     ELSE Zeros(spaceDimensions(heap[ret]) + 1))} :
            /\ heap' = r.heap
            /\ ret' = r.ret
    /\ args' = <<heap[ret].elementList>>
    /\ op' = "extrudeToPyramid"
    /\ calls' = calls + 1

NextExtrude == NextBuild \/ extrude

SpecExtrude == InitBuild /\ [][NextExtrude]_vars

\* the number of cells of rank k of els, 0 for a rank it does not have
CountOf(els, k) == IF k + 1 \in 1..Len(els) THEN Len(els[k + 1]) ELSE 0

\* C24: extrudeToPyramid grows a polytope with a vertex and the counts
\* c_0..c_d in place to the rank d + 1 with c_0 + 1 vertices, c_k + c_(k-1)
\* cells of each rank 1 <= k <= d and c_d cells of rank d + 1; the pyramid
\* over the old cell i of rank k - 1 is the cell c_k + i of rank k, with the
\* facets i and c_(k-1) + f for the facets f of the cell i (the vertex i
\* and the apex c_0 for k = 1); the old cells keep their indices and every
\* facet reference of the result is valid
C24_ExtrudeToPyramid ==
    (op = "extrudeToPyramid" /\ Len(args[1]) >= 1 /\ Len(args[1][1]) >= 1) =>
        LET old == args[1]
            new == heap[ret].elementList
            d == Len(old) - 1
        IN /\ Len(new) = d + 2
           /\ CountOf(new, 0) = CountOf(old, 0) + 1
           /\ \A k \in 1..(d + 1) :
                CountOf(new, k) = CountOf(old, k) + CountOf(old, k - 1)
           /\ \A k \in 0..d : \A i \in 1..CountOf(old, k) :
                new[k + 1][i] = old[k + 1][i]
           /\ \A i \in 0..(CountOf(old, 0) - 1) :
                Range(new[2][CountOf(old, 1) + i + 1]) = {i, CountOf(old, 0)}
           /\ \A k \in 2..(d + 1) : \A i \in 0..(CountOf(old, k - 1) - 1) :
                Range(new[k + 1][CountOf(old, k) + i + 1])
                  = {i} \cup {CountOf(old, k - 1) + f : f \in Range(old[k][i + 1])}
           /\ WellFormed(new)

\* a polytope of rank 3 was extruded, and so was its pyramid
C24_Witness ==
    /\ op = "extrudeToPyramid"
    /\ calls = 3
    /\ Len(args[1]) = 5
    /\ Len(args[1][3]) > 6

(* --------------------------- _mergeChildren ---------------------------- *)
\* most operands of the first product
MaxOperands == 3
\* most calls in a run: the products, then _mergeChildren
MaxSteps == 4

\* for (j = 0; j < child.length - 1; j++) this.child.push(child.pop()):
\* children is this.child, child the array of the child of the same type,
\* whose length each pop takes one from
RECURSIVE mergeFlatten(_, _, _)
mergeFlatten(j, children, child) ==
    IF ~(j < Len(child) - 1) THEN [children |-> children, child |-> child]
    ELSE mergeFlatten(j + 1, Append(children, child[Len(child)]),
                      SubSeq(child, 1, Len(child) - 1))

\* this.child[i] = child.pop(), undefined when the array is empty
mergeReplace(i, st) ==
    [st.children EXCEPT ![i + 1] =
        IF st.child = << >> THEN Leaf("undefined", "")
        ELSE st.child[Len(st.child)]]

\* for (let i = 0; i < oldLength; i++)
RECURSIVE mergeLoop(_, _, _, _)
mergeLoop(i, oldLength, type, children) ==
    IF i >= oldLength THEN children
    ELSE mergeLoop(i + 1, oldLength, type,
             IF children[i + 1].type = type
             THEN mergeReplace(i, mergeFlatten(0, children,
                                               children[i + 1].child))
             ELSE children)

\* node._mergeChildren() for a product node
_mergeChildren(node) ==
    [node EXCEPT !.child = mergeLoop(0, Len(node.child), node.type, node.child)]

\* the constructions of the polytopes that are not products
Plain == {Leaf("Codename", "dyad"), Leaf("Polygon", "3/1")}

ProductTypes == {"Multiprism", "Multitegum"}

\* a product of polytopes that are not products: the node of the result
\* holds the constructions of the operands
firstProduct ==
    /\ op = "none"
    /\ \E type \in ProductTypes :
        \E constructions \in UNION {[1..k -> Plain] : k \in 1..MaxOperands} :
            heap' = <<Multi(type, constructions)>>
    /\ op' = "_product"
    /\ calls' = calls + 1
    /\ UNCHANGED <<args, ret>>

\* a product of the polytope with the node heap[1] and another one
nextProduct ==
    /\ op # "none"
    /\ calls < MaxSteps
    /\ \E type \in ProductTypes : \E other \in Plain :
        \/ heap' = <<Multi(type, <<heap[1], other>>)>>
        \/ heap' = <<Multi(type, <<other, heap[1]>>)>>
    /\ op' = "_product"
    /\ calls' = calls + 1
    /\ UNCHANGED <<args, ret>>

\* getName() of the node, which calls _mergeChildren: args keeps the node
\* before the call
mergeChildren ==
    /\ op # "none"
    /\ calls < MaxSteps
    /\ heap' = <<_mergeChildren(heap[1])>>
    /\ args' = <<heap[1]>>
    /\ op' = "_mergeChildren"
    /\ calls' = calls + 1
    /\ UNCHANGED ret

NextMerge == firstProduct \/ nextProduct \/ mergeChildren

SpecMerge == InitBuild /\ [][NextMerge]_vars

\* the number of places of the list s that hold x
Occurrences(s, x) == Cardinality({k \in 1..Len(s) : s[k] = x})

\* the children of the children of the node's own type, one list after the
\* other
RECURSIVE GrandChildren(_, _)
GrandChildren(type, children) ==
    IF children = << >> THEN << >>
    ELSE (IF Head(children).type = type THEN Head(children).child ELSE << >>)
         \o GrandChildren(type, Tail(children))

\* C25: _mergeChildren loses and duplicates nothing: the children after the
\* call are the children of another type and all the children of each
\* child of the node's type, each as often as before
C25_MergeKeepsAll ==
    op = "_mergeChildren" =>
        LET before == args[1].child
            type == args[1].type
            after == heap[1].child
        IN \A x \in Range(after) \cup Range(before)
                      \cup Range(GrandChildren(type, before)) :
              Occurrences(after, x) =
                  (IF x.type = type THEN 0 ELSE Occurrences(before, x))
                  + Occurrences(GrandChildren(type, before), x)

\* every product in the node is of the node's own kind
RECURSIVE SameKind(_, _)
SameKind(type, node) ==
    node.child = << >>
    \/ /\ node.type = type
       /\ \A k \in 1..Len(node.child) : SameKind(type, node.child[k])

\* C26: after _mergeChildren on a node built by nested products of one
\* kind no direct child has the node's type, and a second _mergeChildren
\* leaves the children as they are
C26_MergeComplete ==
    (op = "_mergeChildren" /\ SameKind(args[1].type, args[1])) =>
        /\ \A k \in 1..Len(heap[1].child) :
              heap[1].child[k].type # heap[1].type
        /\ _mergeChildren(heap[1]).child = heap[1].child

(* ------------------------------ AvlTree -------------------------------- *)
\* the keys the calls are drawn from are 1..MaxKey
MaxKey == 5
\* the number of calls on one tree, its construction included
MaxOps == 7

\* the null reference of a node field; the nodes are numbered from 1
null == 0

\* new AvlNode(key)
AvlNode(key) ==
    [key |-> key, left |-> null, right |-> null, parent |-> null,
     height |-> 0]

\* new AvlTree(): nodes are the AvlNode objects created so far, in the order
\* of their creation
AvlTree ==
    [nodes |-> << >>, root |-> null, size |-> 0, insertedNode |-> null]

\* AvlTree._compare
_compare(a, b) == IF a > b THEN 1 ELSE IF a < b THEN -1 ELSE 0

Max(a, b) == IF a > b THEN a ELSE b

leftHeight(ns, n) ==
    IF ns[n].left = null THEN -1 ELSE ns[ns[n].left].height

rightHeight(ns, n) ==
    IF ns[n].right = null THEN -1 ELSE ns[ns[n].right].height

\* AvlTree.getBalanceState
getBalanceState(ns, n) == leftHeight(ns, n) - rightHeight(ns, n)

\* root.height = Math.max(root.leftHeight(), root.rightHeight()) + 1
updateHeight(ns, n) ==
    [ns EXCEPT ![n].height = Max(leftHeight(ns, n), rightHeight(ns, n)) + 1]

\* if (child && child.parent === this) child.parent = null
unlink(ns, child, n) ==
    IF child # null /\ ns[child].parent = n
    THEN [ns EXCEPT ![child].parent = null] ELSE ns

\* if (node) node.parent = this
setParent(ns, node, n) ==
    IF node # null THEN [ns EXCEPT ![node].parent = n] ELSE ns

\* AvlNode.linkLeft
linkLeft(ns, n, node) ==
    setParent([unlink(ns, ns[n].left, n) EXCEPT ![n].left = node], node, n)

\* AvlNode.linkRight
linkRight(ns, n, node) ==
    setParent([unlink(ns, ns[n].right, n) EXCEPT ![n].right = node], node, n)

\* other.height = Math.max(other.leftHeight(), this.height) + 1
rotateRightHeights(ns, this, other) ==
    [ns EXCEPT ![other].height = Max(leftHeight(ns, other), ns[this].height) + 1]

\* other.height = Math.max(other.rightHeight(), this.height) + 1
rotateLeftHeights(ns, this, other) ==
    [ns EXCEPT ![other].height = Max(rightHeight(ns, other), ns[this].height) + 1]

\* AvlNode.rotateRight: the nodes after it and the node it returns
rotateRight(ns, this) ==
    [nodes |-> rotateRightHeights(
                   updateHeight(
                       linkRight(linkLeft(ns, this, ns[ns[this].left].right),
                                 ns[this].left, this),
                       this),
                   this, ns[this].left),
     root |-> ns[this].left]

\* AvlNode.rotateLeft
rotateLeft(ns, this) ==
    [nodes |-> rotateLeftHeights(
                   updateHeight(
                       linkLeft(linkRight(ns, this, ns[ns[this].right].left),
                                ns[this].right, this),
                       this),
                   this, ns[this].right),
     root |-> ns[this].right]

\* the left right case turned like the left left case
rotateLeftRight_single(ns, root) == rotateRight(ns, root)

\* root.linkLeft(root.left.rotateLeft()); return root.rotateRight()
rotateLeftRight(ns, root) ==
    rotateRight(linkLeft(rotateLeft(ns, ns[root].left).nodes, root,
                         rotateLeft(ns, ns[root].left).root),
                root)

\* root.linkRight(root.right.rotateRight()); return root.rotateLeft()
rotateRightLeft(ns, root) ==
    rotateLeft(linkRight(rotateRight(ns, ns[root].right).nodes, root,
                         rotateRight(ns, ns[root].right).root),
               root)

\* a call's result: the tree t with the nodes and the returned node of rot
Rotated(t, rot) == [t EXCEPT !.nodes = rot.nodes, !.root = rot.root]

\* the rebalancing of _insert, ns being the nodes after the height update
insertRebalance(t, ns, key, root) ==
    IF getBalanceState(ns, root) = 2 /\ ns[root].left # null
    THEN IF _compare(key, ns[ns[root].left].key) < 0
         THEN Rotated(t, rotateRight(ns, root))
         ELSE Rotated(t, rotateLeftRight(ns, root))
    ELSE IF getBalanceState(ns, root) = -2 /\ ns[root].right # null
    THEN IF _compare(key, ns[ns[root].right].key) > 0
         THEN Rotated(t, rotateLeft(ns, root))
         ELSE Rotated(t, rotateRightLeft(ns, root))
    ELSE [t EXCEPT !.nodes = ns, !.root = root]

\* root.linkLeft(r) for the result r of a call on the left subtree, then the
\* height update and the rebalancing of _insert
insertedLeft(r, key, root) ==
    insertRebalance(r, updateHeight(linkLeft(r.nodes, root, r.root), root),
                    key, root)

insertedRight(r, key, root) ==
    insertRebalance(r, updateHeight(linkRight(r.nodes, root, r.root), root),
                    key, root)

\* a duplicate that leaves the size to the increment of insert
duplicate_counted(t, root) == [t EXCEPT !.root = root]

\* this._size--; return root
duplicate(t, root) == [t EXCEPT !.size = t.size - 1, !.root = root]

\* AvlTree._insert: the tree after it, its field root holding the returned
\* node
RECURSIVE _insert(_, _, _)
_insert(t, key, root) ==
    IF root = null
    THEN [t EXCEPT !.nodes = Append(t.nodes, AvlNode(key)),
                   !.insertedNode = Len(t.nodes) + 1,
                   !.root = Len(t.nodes) + 1]
    ELSE IF _compare(key, t.nodes[root].key) < 0
    THEN insertedLeft(_insert(t, key, t.nodes[root].left), key, root)
    ELSE IF _compare(key, t.nodes[root].key) > 0
    THEN insertedRight(_insert(t, key, t.nodes[root].right), key, root)
    ELSE duplicate(t, root)

\* this._size++ of insert
sizeUp(r) == [r EXCEPT !.size = r.size + 1]

\* AvlTree.insert: the tree after it
insert(t, key) == sizeUp(_insert(t, key, t.root))

\* AvlTree.minValueNode
RECURSIVE minValueNode(_, _)
minValueNode(ns, current) ==
    IF ns[current].left # null THEN minValueNode(ns, ns[current].left)
    ELSE current

\* AvlTree.maxValueNode
RECURSIVE maxValueNode(_, _)
maxValueNode(ns, current) ==
    IF ns[current].right # null THEN maxValueNode(ns, ns[current].right)
    ELSE current

\* the rebalancing of _delete, ns being the nodes after the height update
deleteRebalance(t, ns, root) ==
    IF getBalanceState(ns, root) = 2 /\ ns[root].left # null
          /\ getBalanceState(ns, ns[root].left) \in {0, 1}
    THEN Rotated(t, rotateRight(ns, root))
    ELSE IF getBalanceState(ns, root) = 2 /\ ns[root].left # null
          /\ getBalanceState(ns, ns[root].left) = -1
    THEN Rotated(t, rotateLeftRight(ns, root))
    ELSE IF getBalanceState(ns, root) = -2 /\ ns[root].right # null
          /\ getBalanceState(ns, ns[root].right) \in {0, -1}
    THEN Rotated(t, rotateLeft(ns, root))
    ELSE IF getBalanceState(ns, root) = -2 /\ ns[root].right # null
          /\ getBalanceState(ns, ns[root].right) = 1
    THEN Rotated(t, rotateRightLeft(ns, root))
    ELSE [t EXCEPT !.nodes = ns, !.root = root]

\* if (!root) return null, then the height update and the rebalancing
deleteBalance(t, ns, root) ==
    IF root = null THEN [t EXCEPT !.nodes = ns, !.root = null]
    ELSE deleteRebalance(t, updateHeight(ns, root), root)

deletedLeft(r, root) ==
    deleteBalance(r, linkLeft(r.nodes, root, r.root), root)

deletedRight(r, root) ==
    deleteBalance(r, linkRight(r.nodes, root, r.root), root)

\* root = child, the child keeping its parent
deleteChild_linked(t, child) == deleteBalance(t, t.nodes, child)

\* root = child; root.parent = null
deleteChild(t, child) ==
    deleteBalance(t, [t.nodes EXCEPT ![child].parent = null], child)

\* root.key = inOrderSuccessor.key
deleteKey(t, root, inOrderSuccessor) ==
    [t EXCEPT !.nodes[root].key = t.nodes[inOrderSuccessor].key]

\* AvlTree._delete: the tree after it, its field root holding the returned
\* node
RECURSIVE _delete(_, _, _)
_delete(t, key, root) ==
    IF root = null
    THEN [t EXCEPT !.size = t.size + 1, !.root = null]
    ELSE IF _compare(key, t.nodes[root].key) < 0
    THEN deletedLeft(_delete(t, key, t.nodes[root].left), root)
    ELSE IF _compare(key, t.nodes[root].key) > 0
    THEN deletedRight(_delete(t, key, t.nodes[root].right), root)
    ELSE IF t.nodes[root].left = null
    THEN IF t.nodes[root].right = null
         THEN deleteBalance(t, t.nodes, null)
         ELSE deleteChild(t, t.nodes[root].right)
    ELSE IF t.nodes[root].right = null
    THEN deleteChild(t, t.nodes[root].left)
    ELSE deletedRight(
             _delete(deleteKey(t, root,
                               minValueNode(t.nodes, t.nodes[root].right)),
                     t.nodes[minValueNode(t.nodes, t.nodes[root].right)].key,
                     t.nodes[root].right),
             root)

\* this._size-- of delete
sizeDown(r) == [r EXCEPT !.size = r.size - 1]

\* AvlTree.delete: the tree after it
delete(t, key) == sizeDown(_delete(t, key, t.root))

\* the climb of next: while (node.parent) ...
RECURSIVE nextUp(_, _)
nextUp(ns, node) ==
    IF ns[node].parent = null THEN null
    ELSE IF ns[ns[node].parent].right = node
    THEN nextUp(ns, ns[node].parent)
    ELSE ns[node].parent

\* AvlTree.next
next(ns, node) ==
    IF ns[node].right # null THEN minValueNode(ns, ns[node].right)
    ELSE nextUp(ns, node)

\* the climb of prev
RECURSIVE prevUp(_, _)
prevUp(ns, node) ==
    IF ns[node].parent = null THEN null
    ELSE IF ns[ns[node].parent].left = node
    THEN prevUp(ns, ns[node].parent)
    ELSE ns[node].parent

\* AvlTree.prev
prev(ns, node) ==
    IF ns[node].left # null THEN maxValueNode(ns, ns[node].left)
    ELSE prevUp(ns, node)

findMinimumNode(t) ==
    IF t.root = null THEN null ELSE minValueNode(t.nodes, t.root)

findMaximumNode(t) ==
    IF t.root = null THEN null ELSE maxValueNode(t.nodes, t.root)

size(t) == t.size

isEmpty(t) == t.size = 0

\* new AvlTree(customCompare) without a custom compare function
newAvlTree ==
    /\ op = "none"
    /\ heap' = <<AvlTree>>
    /\ op' = "AvlTree"
    /\ calls' = calls + 1
    /\ UNCHANGED <<args, ret>>

\* tree.insert(key): args holds the key and the tree before the call, ret the
\* returned node, or null when insert throws "AVL insertion failed!"
avlInsert ==
    /\ op # "none"
    /\ calls < MaxOps
    /\ \E key \in 1..MaxKey : \E r \in {insert(heap[1], key)} :
        /\ heap' = <<r>>
        /\ args' = <<key, heap[1]>>
        /\ ret' = r.insertedNode
        /\ op' = IF r.insertedNode = null THEN "Error" ELSE "insert"
    /\ calls' = calls + 1

\* tree.delete(key)
avlDelete ==
    /\ op # "none"
    /\ calls < MaxOps
    /\ \E key \in 1..MaxKey :
        /\ heap' = <<delete(heap[1], key)>>
        /\ args' = <<key, heap[1]>>
    /\ ret' = null
    /\ op' = "delete"
    /\ calls' = calls + 1

NextAvl == newAvlTree \/ avlInsert \/ avlDelete

SpecAvl == InitBuild /\ [][NextAvl]_vars

\* the nodes of the subtree of n, n included
RECURSIVE Subtree(_, _)
Subtree(ns, n) ==
    IF n = null THEN {}
    ELSE {n} \cup Subtree(ns, ns[n].left) \cup Subtree(ns, ns[n].right)

\* the nodes in the tree and the keys stored in it
Stored(t) == Subtree(t.nodes, t.root)

StoredKeys(t) == {t.nodes[n].key : n \in Stored(t)}

\* the height of the subtree of n, counted in edges, -1 for no subtree
RECURSIVE TrueHeight(_, _)
TrueHeight(ns, n) ==
    IF n = null THEN -1
    ELSE Max(TrueHeight(ns, ns[n].left), TrueHeight(ns, ns[n].right)) + 1

Balanced(ns, n) ==
    TrueHeight(ns, ns[n].left) - TrueHeight(ns, ns[n].right) \in {-1, 0, 1}

Ordered(ns, n) ==
    /\ \A m \in Subtree(ns, ns[n].left) : ns[m].key < ns[n].key
    /\ \A m \in Subtree(ns, ns[n].right) : ns[m].key > ns[n].key

AvlCalled == op \in {"insert", "delete"}

\* C27: after every insert and delete the subtree heights of every node of
\* the tree differ by at most 1, its field height is the height of its
\* subtree, and the keys left of it are smaller and right of it larger
C27_AvlInvariant ==
    AvlCalled =>
        \A n \in Stored(heap[1]) :
            /\ Balanced(heap[1].nodes, n)
            /\ heap[1].nodes[n].height = TrueHeight(heap[1].nodes, n)
            /\ Ordered(heap[1].nodes, n)

\* a delete of a key below the root of a tree of 4 keys that turned the root
C27_Witness ==
    /\ op = "delete"
    /\ size(args[2]) = 4
    /\ args[1] \in StoredKeys(args[2])
    /\ args[1] # args[2].nodes[args[2].root].key
    /\ heap[1].root # args[2].root

\* C28: after every insert and delete size() is the number of keys stored,
\* each in one node; an insert of a stored key and a delete of a key not
\* stored leave size() and the keys alone; isEmpty() holds exactly when no
\* key is stored
C28_AvlSize ==
    AvlCalled =>
        /\ size(heap[1]) = Cardinality(StoredKeys(heap[1]))
        /\ Cardinality(Stored(heap[1])) = Cardinality(StoredKeys(heap[1]))
        /\ (op = "insert") = (args[1] \in StoredKeys(args[2]))
              => /\ size(heap[1]) = size(args[2])
                 /\ StoredKeys(heap[1]) = StoredKeys(args[2])
        /\ isEmpty(heap[1]) = (StoredKeys(heap[1]) = {})

\* an insert of a key that a tree of 3 keys stores
C28_Witness ==
    /\ op = "insert"
    /\ args[1] \in StoredKeys(args[2])
    /\ size(args[2]) = 3

\* the keys met from node on by calling next, at most fuel of them
RECURSIVE walkNext(_, _, _)
walkNext(ns, node, fuel) ==
    IF node = null \/ fuel = 0 THEN << >>
    ELSE <<ns[node].key>> \o walkNext(ns, next(ns, node), fuel - 1)

RECURSIVE walkPrev(_, _, _)
walkPrev(ns, node, fuel) ==
    IF node = null \/ fuel = 0 THEN << >>
    ELSE <<ns[node].key>> \o walkPrev(ns, prev(ns, node), fuel - 1)

\* the keys of S in increasing order
RECURSIVE Increasing(_)
Increasing(S) ==
    IF S = {} THEN << >>
    ELSE <<CHOOSE k \in S : \A x \in S : k <= x>>
            \o Increasing(S \ {CHOOSE k \in S : \A x \in S : k <= x})

Reverse(s) == [k \in 1..Len(s) |-> s[Len(s) + 1 - k]]

Linked(ns, n, child) == child # null => ns[child].parent = n

\* C29: after every insert and delete the root has no parent, the children
\* of every node of the tree name it as their parent, the walk by next() from
\* findMinimumNode() meets the stored keys in increasing order and ends with
\* null, and the walk by prev() from findMaximumNode() meets them in
\* decreasing order
C29_AvlTraversal ==
    AvlCalled =>
        /\ heap[1].root # null => heap[1].nodes[heap[1].root].parent = null
        /\ \A n \in Stored(heap[1]) :
              /\ Linked(heap[1].nodes, n, heap[1].nodes[n].left)
              /\ Linked(heap[1].nodes, n, heap[1].nodes[n].right)
        /\ walkNext(heap[1].nodes, findMinimumNode(heap[1]),
                    Len(heap[1].nodes) + 1)
              = Increasing(StoredKeys(heap[1]))
        /\ walkPrev(heap[1].nodes, findMaximumNode(heap[1]),
                    Len(heap[1].nodes) + 1)
              = Reverse(Increasing(StoredKeys(heap[1])))

\* a delete of the key of a root with one child in a tree of 2 keys, and the
\* walk over the key left
C29_Witness ==
    /\ op = "delete"
    /\ size(args[2]) = 2
    /\ args[1] = args[2].nodes[args[2].root].key
    /\ Len(walkNext(heap[1].nodes, findMinimumNode(heap[1]),
                    Len(heap[1].nodes) + 1)) = 1

\* C30: the node insert(key) returns is in the tree and holds the key, also
\* when the tree stored the key before the call
C30_InsertReturnsNode ==
    /\ op # "Error"
    /\ op = "insert" =>
          /\ ret \in Stored(heap[1])
          /\ heap[1].nodes[ret].key = args[1]

====
